---- MODULE Spec2Model ----
(***************************************************************************)
(* A model of src/src/network.rs: the Network of nodes, its ingestion      *)
(* (Network::from_file), Network::order, Network::reindex and              *)
(* Network::cumulate.                                                      *)
(*                                                                         *)
(* Node indices are the zero-based usize values of the source; a Vec is a  *)
(* sequence, so the node with index i is nodes[i + 1].  An Option<usize>   *)
(* is the empty sequence (None) or a one-element sequence (Some).  A       *)
(* HashSet is a set, and `*set.iter().next().unwrap()` is a choice of any  *)
(* element of it (the iteration order of a HashSet is not specified).      *)
(* f32 values are integers: the values of the model are small enough for   *)
(* f32 arithmetic to be exact on them.                                     *)
(***************************************************************************)
EXTENDS Integers, Sequences, FiniteSets, TLC

(***************************************************************************)
(* Bounds of the model.                                                    *)
(***************************************************************************)
\* The number of distinct node names of a connection file.
MaxNodes == 4
\* The number of distinct node names of a connection file whose nodes have
\* attribute files (the runs of cumulate).
MaxCumNodes == 3
\* The number of variables of one cumulate call.
MaxVars == 2
\* the edge lines of a connection file that is not well-formed
MaxEdges == 2
\* the names of such a file
MaxRawNodes == 3
\* the names of a file whose reading alone is followed
MaxParseNodes == 2
\* the names of a file whose network is printed
MaxPrintNodes == 3
\* the names of a file whose nodes get an order from their attribute files
MaxLoopNodes == 3
\* the names of a file whose nodes' attributes are compared with their fields
MaxMirrorNodes == 3
\* the names of a file whose network is emitted as a graph description or
\* as a table
MaxEmitNodes == 3
\* the visits graph_print is followed for on the network of SideFile
MaxGraphVisits == 2
\* the visits reindex is followed for where its loop has no end
MaxVisits == 7

NodeNames == <<"A", "B", "C", "D", "E", "F">>

NamesUpTo(k) == {NodeNames[i] : i \in 1..k}

(***************************************************************************)
(* Generic helpers: Vec and HashMap operations of the standard library.    *)
(***************************************************************************)
Some(x) == <<x>>

None == <<>>

EmptyMap == <<>>

\* a mutant of MapInsert: the value of a key the map holds is kept
MapInsertIfAbsent(m, k, v) == m @@ (k :> v)

\* HashMap::insert
MapInsert(m, k, v) == (k :> v) @@ m

Range(s) == {s[i] : i \in DOMAIN s}

RECURSIVE SumSeq(_)
SumSeq(s) == IF s = <<>> THEN 0 ELSE Head(s) + SumSeq(Tail(s))

RECURSIVE JoinStr(_, _)
\* the strings of s, joined by sep
JoinStr(s, sep) ==
    IF s = <<>> THEN ""
    ELSE IF Len(s) = 1 THEN s[1]
    ELSE s[1] \o sep \o JoinStr(Tail(s), sep)

RECURSIVE InsertSortedBeforeEquals(_, _, _)
\* a mutant of InsertSorted: x placed in front of the elements of equal key,
\* as a sort that is not stable may do
InsertSortedBeforeEquals(s, x, key) ==
    IF s = <<>> THEN <<x>>
    ELSE IF key[x + 1] <= key[Head(s) + 1] THEN <<x>> \o s
    ELSE <<Head(s)>> \o InsertSortedBeforeEquals(Tail(s), x, key)

RECURSIVE InsertSorted(_, _, _)
\* x placed behind every element of the sorted s whose key is <= key[x]
InsertSorted(s, x, key) ==
    IF s = <<>> THEN <<x>>
    ELSE IF key[x + 1] < key[Head(s) + 1] THEN <<x>> \o s
    ELSE <<Head(s)>> \o InsertSorted(Tail(s), x, key)

RECURSIVE SortByKey(_, _)
\* slice::sort_by on a Vec<usize> with the comparison key[n1].cmp(key[n2]):
\* a stable sort, ascending.
SortByKey(s, key) ==
    IF s = <<>> THEN <<>>
    ELSE InsertSorted(SortByKey(SubSeq(s, 1, Len(s) - 1), key), s[Len(s)], key)

(***************************************************************************)
(* NodeAttr: the variants and their readers.                               *)
(***************************************************************************)
AttrString(s) == [tag |-> "String", val |-> s]

AttrNumber(n) == [tag |-> "Number", val |-> n]

AttrVec(v) == [tag |-> "Vec", val |-> v]

AttrValue(v) == [tag |-> "Value", val |-> v]

\* impl fmt::Display for NodeAttr
Display(a) ==
    CASE a.tag = "String" -> a.val
      [] a.tag = "Number" -> ToString(a.val)
      [] a.tag = "Vec" -> "[" \o JoinStr([i \in DOMAIN a.val |-> ToString(a.val[i])], ", ") \o "]"
      [] a.tag = "Value" -> ToString(a.val)

\* NodeAttr::read_number, an Option
read_number(a) == IF a.tag = "Number" THEN Some(a.val) ELSE None

\* a mutant of read_value: a Number is not read
read_value_of_Value_only(a) == IF a.tag = "Value" THEN Some(a.val) ELSE None

\* NodeAttr::read_value, an Option: a Number is cast to f32
read_value(a) ==
    IF a.tag = "Value" THEN Some(a.val)
    ELSE IF a.tag = "Number" THEN Some(a.val)
    ELSE None

(***************************************************************************)
(* Node.                                                                   *)
(***************************************************************************)
\* Node::set_attr
set_attr(node, key, val) ==
    [node EXCEPT !.variables = MapInsert(@, key, Display(val)),
                 !.attrs = MapInsert(@, key, val)]

\* Node::get_attr, an Option
get_attr(node, key) ==
    IF key \in DOMAIN node.attrs THEN Some(node.attrs[key]) ELSE None

\* Node::new
NodeNew(index, name, inputs, output) ==
    LET node == [index |-> index, name |-> name, inputs |-> inputs,
                 output |-> output, attrs |-> EmptyMap, variables |-> EmptyMap]
    IN set_attr(set_attr(set_attr(node, "name", AttrString(name)),
                         "index", AttrNumber(index)),
                "inputs", AttrVec(inputs))

\* Node::set_inputs
set_inputs(node, inputs) ==
    set_attr([node EXCEPT !.inputs = inputs], "inputs", AttrVec(inputs))

\* Node::set_output
set_output(node, output) ==
    set_attr([node EXCEPT !.output = Some(output)], "output", AttrNumber(output))

\* a mutant of set_index: the field is set, the attribute is not
set_index_field_only(node, index) == [node EXCEPT !.index = index]

\* Node::set_index
set_index(node, index) ==
    set_attr([node EXCEPT !.index = index], "index", AttrNumber(index))

(***************************************************************************)
(* Text: a line is a sequence of one-character tokens, a name token and    *)
(* the arrow "->" counting as one token each.                              *)
(***************************************************************************)
Digits == <<"0", "1", "2", "3", "4", "5", "6", "7", "8", "9">>

IsDigit(c) == \E d \in DOMAIN Digits : Digits[d] = c

DigitVal(c) == (CHOOSE d \in DOMAIN Digits : Digits[d] = c) - 1

RECURSIVE TrimStart(_)
TrimStart(s) ==
    IF s # <<>> /\ Head(s) = " " THEN TrimStart(Tail(s)) ELSE s

RECURSIVE TrimEnd(_)
TrimEnd(s) ==
    IF s # <<>> /\ s[Len(s)] = " " THEN TrimEnd(SubSeq(s, 1, Len(s) - 1)) ELSE s

\* str::trim
Trim(s) == TrimEnd(TrimStart(s))

\* the tokens of s as one string
Text(s) == JoinStr(s, "")

\* str::split_once(sep), an Option of the pair (before, after) the first sep
SplitOnce(s, sep) ==
    IF \E i \in DOMAIN s : s[i] = sep
    THEN LET i == CHOOSE j \in DOMAIN s : s[j] = sep /\ \A k \in 1..(j - 1) : s[k] # sep
         IN Some(<<SubSeq(s, 1, i - 1), SubSeq(s, i + 1, Len(s))>>)
    ELSE None

RECURSIVE DecimalValue(_, _)
DecimalValue(s, acc) ==
    IF s = <<>> THEN acc ELSE DecimalValue(Tail(s), 10 * acc + DigitVal(Head(s)))

\* str::parse::<usize>, an Option (Err is None), on digit strings
ParseUsize(s) ==
    IF s # <<>> /\ \A i \in DOMAIN s : IsDigit(s[i])
    THEN Some(DecimalValue(s, 0))
    ELSE None

\* str::parse::<f32>, an Option, on the decimals "d.0" of the model
ParseF32(s) ==
    LET sp == SplitOnce(s, ".")
    IN IF sp # None /\ ParseUsize(sp[1][1]) # None /\ sp[1][2] = <<"0">>
       THEN ParseUsize(sp[1][1])
       ELSE ParseUsize(s)

\* one line of Node::load_attrs_from_file
LoadAttrLine(node, rawline) ==
    LET line == Trim(rawline)
    IN IF line = <<>> \/ Head(line) = "#" THEN node
       ELSE LET kv == SplitOnce(line, "=")
            IN IF kv = None THEN node
               ELSE LET key == Text(Trim(kv[1][1]))
                        val == Trim(kv[1][2])
                    IN IF ParseUsize(val) # None
                       THEN set_attr(node, key, AttrNumber(ParseUsize(val)[1]))
                       ELSE IF ParseF32(val) # None
                       THEN set_attr(node, key, AttrValue(ParseF32(val)[1]))
                       ELSE set_attr(node, key, AttrString(Text(val)))

RECURSIVE LoadAttrLines(_, _)
LoadAttrLines(node, lines) ==
    IF lines = <<>> THEN node
    ELSE LoadAttrLines(LoadAttrLine(node, Head(lines)), Tail(lines))

\* Node::load_attrs_from_file(...).ok(): a file that cannot be opened (None)
\* leaves the node as it is
load_attrs_from_file(node, file) ==
    IF file = None THEN node ELSE LoadAttrLines(node, file[1])

(***************************************************************************)
(* The state.                                                              *)
(***************************************************************************)
VARIABLES
    env,          \* what the program is run on: the files next to the connection file
    pc,           \* the function the program is in
    ret,          \* the caller of order/reindex: "from_file", or "api" (a direct call)
    indices,      \* from_file's indices, then Network.indices
    inputs,       \* from_file's inputs
    output_map,   \* from_file's output_map
    line,         \* from_file's line: the line read last, as reader.lines() gave it,
                  \* kept after the iteration where env.echo
    nodes,        \* Network.nodes
    all_nodes,    \* the local all_nodes of order, of reindex and of graph_print
    order_queue,  \* the local order_queue of order
    output,       \* the local output of reindex
    visited,      \* the local nodes of reindex: the (node, level) pairs in visit order
    curr_nodes,   \* the local curr_nodes of reindex and of graph_print
    graph_nodes,  \* the local graph_nodes of graph_print
    stdout,       \* the lines printed to the standard output
    ingested,     \* a clone of the Network from_file returned
    ops,          \* the calls made on the network since from_file returned it
    before,       \* a clone of the Network taken before the last call made on it
    result        \* what the last cumulate call returned

vars == <<env, pc, ret, indices, inputs, output_map, line, nodes, all_nodes, order_queue,
          output, visited, curr_nodes, graph_nodes, stdout, ingested, ops, before, result>>

parseVars == <<indices, inputs, output_map, line>>

orderVars == <<order_queue>>

reindexVars == <<output, visited, curr_nodes>>

printVars == <<graph_nodes, stdout>>

harnessVars == <<ingested, ops, before, result>>

\* struct Network
Network(ind, nds) == [indices |-> ind, nodes |-> nds]

\* the node with index i of a Vec<Node>
At(nds, i) == nds[i + 1]

\* (0..self.nodes.len()).collect()
AllIndices(nds) == 0..(Len(nds) - 1)

(***************************************************************************)
(* The environment: the connection file is read line by line, each line    *)
(* any of RawLines; nodes/<name>.txt and nodes/<name> are env.fs[name].    *)
(***************************************************************************)
RawLines(names) ==
    {<<>>, <<" ">>}
    \cup {<<"#", a>> : a \in names}
    \cup {<<a>> : a \in names}
    \cup {<<" ", a, " ">> : a \in names}
    \cup {<<a, "->", b>> : a \in names, b \in names}
    \cup {<<a, " ", "->", " ", b>> : a \in names, b \in names}

NoFiles == [name \in Range(NodeNames) |-> <<None, None>>]

\* every node has nodes/<name>.txt with the line "x = 1"
UnitFiles == [name \in Range(NodeNames) |-> <<Some(<<<<"x", " ", "=", " ", "1">>>>), None>>]

\* every node has nodes/<name>.txt with the line "order = 1"
OrderFiles ==
    [name \in Range(NodeNames) |->
        <<Some(<<<<"o", "r", "d", "e", "r", " ", "=", " ", "1">>>>), None>>]

\* nodes/A.txt: "output = 5" and "index = 9"; nodes/B.txt: "inputs = x"; no
\* file for the other names
FieldFiles ==
    [name \in Range(NodeNames) |->
        CASE name = "A" -> <<Some(<<<<"o", "u", "t", "p", "u", "t", " ", "=", " ", "5">>,
                                    <<"i", "n", "d", "e", "x", " ", "=", " ", "9">>>>), None>>
          [] name = "B" -> <<Some(<<<<"i", "n", "p", "u", "t", "s", " ", "=", " ", "x">>>>), None>>
          [] OTHER -> <<None, None>>]

\* nodes/A.txt: "v = 7", and nodes/A, read after it: a comment and "v=2.0";
\* nodes/C.txt: " v = abc"; nodes/D: "v = 3"; no file for the other names
MixedFiles ==
    [name \in Range(NodeNames) |->
        CASE name = "A" -> <<Some(<<<<"v", " ", "=", " ", "7">>>>),
                             Some(<<<<"#", "v">>, <<"v", "=", "2", ".", "0">>>>)>>
          [] name = "C" -> <<Some(<<<<" ", "v", " ", "=", " ", "a", "b", "c">>>>), None>>
          [] name = "D" -> <<None, Some(<<<<"v", " ", "=", " ", "3">>>>)>>
          [] OTHER -> <<None, None>>]

RECURSIVE ChainEnds(_, _, _)
\* following output_map from index i ends within fuel hops
ChainEnds(om, i, fuel) ==
    IF i \notin DOMAIN om THEN TRUE
    ELSE IF fuel = 0 THEN FALSE
    ELSE ChainEnds(om, om[i], fuel - 1)

\* the lines read so far are a well-formed forest: every name the source of at
\* most one edge line, and no cycle
WellFormed(ind, inp, om) ==
    /\ SumSeq([i \in DOMAIN inp |-> Len(inp[i])]) = Cardinality(DOMAIN om)
    /\ \A i \in DOMAIN om : ChainEnds(om, i, Len(inp))

\* the names come into the file in the order of env.names.  The program uses
\* a name as a key of its maps only, so every file is one of the files that
\* first use their names in the order of NodeNames, with its names renamed.
FirstUseOrder(ind) == \A name \in DOMAIN ind : env.names[ind[name] + 1] = name

\* the edge lines read so far
EdgeLines(inp) == SumSeq([i \in DOMAIN inp |-> Len(inp[i])])

(***************************************************************************)
(* Network::from_file: the loop over the lines.                            *)
(***************************************************************************)
\* a mutant of insert_ifnot_node: the name is numbered anew at every occurrence
insert_node_always(st, inp) ==
    <<MapInsert(st[1], inp, Cardinality(DOMAIN st[1])), Append(st[2], <<>>)>>

\* insert_ifnot_node, on the pair <<indices, inputs>>
insert_ifnot_node(st, inp) ==
    IF inp \notin DOMAIN st[1]
    THEN <<MapInsert(st[1], inp, Cardinality(DOMAIN st[1])), Append(st[2], <<>>)>>
    ELSE st

\* one iteration of `for line in reader.lines()`: <<indices, inputs, output_map>> after it
ParseLine(ind, inps, om, raw) ==
    LET trimmed == Trim(raw)
    IN IF trimmed = <<>> \/ Head(trimmed) = "#" THEN <<ind, inps, om>>
       ELSE LET sp == SplitOnce(trimmed, "->")
            IN IF sp # None
               THEN LET inp == Text(Trim(sp[1][1]))
                        out == Text(Trim(sp[1][2]))
                        st == insert_ifnot_node(insert_ifnot_node(<<ind, inps>>, inp), out)
                    IN <<st[1],
                         [st[2] EXCEPT ![st[1][out] + 1] = Append(@, st[1][inp])],
                         MapInsert(om, st[1][inp], st[1][out])>>
               ELSE LET st == insert_ifnot_node(<<ind, inps>>, Text(trimmed))
                    IN <<st[1], st[2], om>>

RECURSIVE ParseLines(_, _)
\* `for line in reader.lines()` over the lines of a file, from the state st
ParseLines(lines, st) ==
    IF lines = <<>> THEN st
    ELSE ParseLines(Tail(lines), ParseLine(st[1], st[2], st[3], Head(lines)))

\* the file with the lines A, B -> C, D -> C, E -> B and F -> D
SideFile ==
    <<<<"A">>, <<"B", " ", "->", " ", "C">>, <<"D", " ", "->", " ", "C">>,
      <<"E", " ", "->", " ", "B">>, <<"F", " ", "->", " ", "D">>>>

\* the file with the lines A -> B and C -> B
StemFile == <<<<"A", " ", "->", " ", "B">>, <<"C", " ", "->", " ", "B">>>>

\* the lines the environment of this run holds: where env.file is a file,
\* the lines read so far are what a part of it from its start leaves
Allowed(ind, inp, om) ==
    /\ DOMAIN ind \subseteq NamesUpTo(env.cap)
    /\ env.file # None =>
          \E k \in 0..Len(env.file[1]) :
              <<ind, inp, om>> = ParseLines(SubSeq(env.file[1], 1, k), <<EmptyMap, <<>>, EmptyMap>>)
    /\ env.wf => WellFormed(ind, inp, om)
    /\ ~env.wf => EdgeLines(inp) <= MaxEdges
    /\ env.renamed => FirstUseOrder(ind)

ReadLine ==
    /\ pc = "parse"
    /\ \E raw \in RawLines(NamesUpTo(env.cap)) :
        LET st == ParseLine(indices, inputs, output_map, raw)
        IN /\ Allowed(st[1], st[2], st[3])
           /\ indices' = st[1]
           /\ inputs' = st[2]
           /\ output_map' = st[3]
           /\ line' = IF env.echo THEN raw ELSE <<>>
    /\ UNCHANGED <<env, pc, ret, nodes, all_nodes, orderVars, reindexVars, printVars,
                   harnessVars>>

\* the names map of from_file: the name with index i
NameOf(ind, i) == CHOOSE name \in DOMAIN ind : ind[name] = i

\* the nodes of from_file: Node::new and the two attribute files of each
BuildNodes(ind, inps, om, fs) ==
    [k \in DOMAIN inps |->
        LET name == NameOf(ind, k - 1)
            n == NodeNew(k - 1, name, inps[k],
                         IF (k - 1) \in DOMAIN om THEN Some(om[k - 1]) ELSE None)
        IN load_attrs_from_file(load_attrs_from_file(n, fs[name][1]), fs[name][2])]

\* the end of the file: the nodes are built and net.order() is entered
EndOfFile ==
    /\ pc = "parse"
    /\ nodes' = BuildNodes(indices, inputs, output_map, env.fs)
    /\ all_nodes' = AllIndices(nodes')
    /\ order_queue' = <<>>
    /\ pc' = "order"
    /\ ret' = "from_file"
    /\ line' = <<>>
    /\ UNCHANGED <<env, indices, inputs, output_map, reindexVars, printVars, harnessVars>>

(***************************************************************************)
(* Network::order.                                                         *)
(***************************************************************************)
\* a mutant of OrderSum: the order of the first input stands for the sum
OrderSumFirstOnly(nds, ins) ==
    IF \A k \in DOMAIN ins :
          /\ get_attr(At(nds, ins[k]), "order") # None
          /\ read_number(get_attr(At(nds, ins[k]), "order")[1]) # None
    THEN Some(read_number(get_attr(At(nds, ins[1]), "order")[1])[1])
    ELSE None

\* a mutant of OrderSum: the last input is left out of the sum
OrderSumWithoutLast(nds, ins) ==
    IF \A k \in DOMAIN ins :
          /\ get_attr(At(nds, ins[k]), "order") # None
          /\ read_number(get_attr(At(nds, ins[k]), "order")[1]) # None
    THEN Some(SumSeq([k \in 1..(Len(ins) - 1) |->
                         read_number(get_attr(At(nds, ins[k]), "order")[1])[1]]))
    ELSE None

\* the order attribute of the nodes listed in ins: Some(sum) or, where the
\* unwrap of a missing or non-Number attribute panics, None
OrderSum(nds, ins) ==
    IF \A k \in DOMAIN ins :
          /\ get_attr(At(nds, ins[k]), "order") # None
          /\ read_number(get_attr(At(nds, ins[k]), "order")[1]) # None
    THEN Some(SumSeq([k \in DOMAIN ins |-> read_number(get_attr(At(nds, ins[k]), "order")[1])[1]]))
    ELSE None

\* the order a node with no inputs gets
LeafOrder == 1

\* a mutant of OrderOf: the node itself is counted twice
OrderOfSelfTwice(ord) == ord + 2

\* a mutant of OrderOf: the node itself is not counted
OrderOfInputsOnly(ord) == ord

\* the order a node gets from the sum of its inputs' orders
OrderOf(ord) == ord + 1

\* the inputs of node that are still in all: uncalc_inputs
UncalcInputs(node, all) == SelectSeq(node.inputs, LAMBDA i : i \in all)

\* a mutant of OrderIter: the inputs pushed stay in all_nodes
OrderIterInputsStay(nds, all, queue, elem) ==
    LET q1 == IF queue = <<>> THEN <<elem>> ELSE queue
        a1 == IF queue = <<>> THEN all \ {elem} ELSE all
        n == q1[Len(q1)]
        q2 == SubSeq(q1, 1, Len(q1) - 1)
        node == At(nds, n)
        uncalc_inputs == UncalcInputs(node, a1)
    IN IF node.inputs = <<>>
       THEN <<[nds EXCEPT ![n + 1] = set_attr(@, "order", AttrNumber(LeafOrder))], a1, q2>>
       ELSE IF uncalc_inputs # <<>>
       THEN <<nds, a1, q2 \o <<n>> \o uncalc_inputs>>
       ELSE <<[nds EXCEPT ![n + 1] =
                  set_attr(@, "order", AttrNumber(OrderOf(OrderSum(nds, node.inputs)[1])))],
              a1, q2>>

\* one iteration of the loop of order, elem being the node taken from all_nodes
\* when order_queue is empty: <<nodes, all_nodes, order_queue>> after it
OrderIter(nds, all, queue, elem) ==
    LET q1 == IF queue = <<>> THEN <<elem>> ELSE queue
        a1 == IF queue = <<>> THEN all \ {elem} ELSE all
        n == q1[Len(q1)]
        q2 == SubSeq(q1, 1, Len(q1) - 1)
        node == At(nds, n)
        uncalc_inputs == UncalcInputs(node, a1)
    IN IF node.inputs = <<>>
       THEN <<[nds EXCEPT ![n + 1] = set_attr(@, "order", AttrNumber(LeafOrder))], a1, q2>>
       ELSE IF uncalc_inputs # <<>>
       THEN <<nds, a1 \ Range(uncalc_inputs), q2 \o <<n>> \o uncalc_inputs>>
       ELSE <<[nds EXCEPT ![n + 1] =
                  set_attr(@, "order", AttrNumber(OrderOf(OrderSum(nds, node.inputs)[1])))],
              a1, q2>>

\* the iteration panics: an input of the node popped has no order yet
OrderPanics(nds, all, queue, elem) ==
    LET q1 == IF queue = <<>> THEN <<elem>> ELSE queue
        a1 == IF queue = <<>> THEN all \ {elem} ELSE all
        node == At(nds, q1[Len(q1)])
    IN /\ node.inputs # <<>>
       /\ UncalcInputs(node, a1) = <<>>
       /\ OrderSum(nds, node.inputs) = None

\* what `*all_nodes.iter().next().unwrap()` can be when the queue is empty
Seeds(all, queue) == IF queue = <<>> THEN all ELSE {0}

OrderStep ==
    /\ pc = "order"
    /\ ~(all_nodes = {} /\ order_queue = <<>>)
    /\ \E elem \in Seeds(all_nodes, order_queue) :
        /\ ~OrderPanics(nodes, all_nodes, order_queue, elem)
        /\ LET st == OrderIter(nodes, all_nodes, order_queue, elem)
           IN /\ nodes' = st[1]
              /\ all_nodes' = st[2]
              /\ order_queue' = st[3]
    /\ UNCHANGED <<env, pc, ret, parseVars, reindexVars, printVars, harnessVars>>

\* reindex returns, leaving Network(ind, nds); when from_file called it,
\* from_file returns too and the caller keeps a clone of the network
ReindexReturn(ind, nds) ==
    /\ indices' = ind
    /\ nodes' = nds
    /\ pc' = "ready"
    /\ ingested' = IF ret = "from_file" THEN Some(Network(ind, nds)) ELSE ingested
    /\ all_nodes' = {}
    /\ output' = 0
    /\ visited' = <<>>
    /\ curr_nodes' = <<>>

\* reindex is entered: no node, and it returns; else the search for the most
\* downstream point starts at node 0
ReindexEnter ==
    IF nodes = <<>>
    THEN ReindexReturn(indices, nodes)
    ELSE /\ pc' = "root"
         /\ output' = 0
         /\ all_nodes' = {}
         /\ UNCHANGED <<indices, nodes, visited, curr_nodes, ingested>>

\* the loop of order breaks; from_file goes on to net.reindex()
OrderDone ==
    /\ pc = "order"
    /\ all_nodes = {} /\ order_queue = <<>>
    /\ IF ret = "from_file"
       THEN ReindexEnter
       ELSE /\ pc' = "ready"
            /\ UNCHANGED <<indices, nodes, all_nodes, reindexVars, ingested>>
    /\ UNCHANGED <<env, ret, inputs, output_map, line, orderVars, printVars, ops, before,
                   result>>

(***************************************************************************)
(* Network::reindex.                                                       *)
(***************************************************************************)
\* while let Some(out) = self.nodes[output].output { output = out }
RootStep ==
    /\ pc = "root"
    /\ At(nodes, output).output # None
    /\ output' = At(nodes, output).output[1]
    /\ UNCHANGED <<env, pc, ret, parseVars, nodes, all_nodes, orderVars, visited,
                   curr_nodes, printVars, harnessVars>>

\* the level of the traversal root and of every node seeded later
RootLevel == 0

\* a mutant of RootFound: the traversal starts at node 0, not at the most
\* downstream point found from it
RootFoundAtNodeZero ==
    /\ pc = "root"
    /\ At(nodes, output).output = None
    /\ visited' = <<>>
    /\ all_nodes' = AllIndices(nodes)
    /\ curr_nodes' = <<<<0, RootLevel>>>>
    /\ pc' = "reindex"
    /\ UNCHANGED <<env, ret, parseVars, nodes, orderVars, output, printVars, harnessVars>>

RootFound ==
    /\ pc = "root"
    /\ At(nodes, output).output = None
    /\ visited' = <<>>
    /\ all_nodes' = AllIndices(nodes)
    /\ curr_nodes' = <<<<output, RootLevel>>>>
    /\ pc' = "reindex"
    /\ UNCHANGED <<env, ret, parseVars, nodes, orderVars, output, printVars, harnessVars>>

\* the orders vector of reindex
Orders(nds) == [k \in DOMAIN nds |-> read_number(get_attr(nds[k], "order")[1])[1]]

\* a mutant of InputLevel: every input is a side branch
InputLevelAllDeeper(inp, last, level) == level + 1

\* the level an input is enqueued at, last being the last of the sorted inputs
InputLevel(inp, last, level) == IF inp = last THEN level ELSE level + 1

\* a mutant of ReindexIter: an input is enqueued only while it is in all_nodes
ReindexIterUnvisitedOnly(nds, all, curr, vis, elem) ==
    LET c1 == IF curr = <<>> THEN <<<<elem, RootLevel>>>> ELSE curr
        a1 == IF curr = <<>> THEN all \ {elem} ELSE all
        n == c1[1][1]
        level == c1[1][2]
        c2 == Tail(c1)
        vis2 == Append(vis, <<n, level>>)
        a2 == a1 \ {n}
    IN IF At(nds, n).inputs # <<>>
       THEN LET sorted == SortByKey(At(nds, n).inputs, Orders(nds))
                last == sorted[Len(sorted)]
                fresh == SelectSeq(sorted, LAMBDA i : i \in a2)
            IN <<[nds EXCEPT ![n + 1].inputs = sorted],
                 a2 \ Range(sorted),
                 c2 \o [k \in DOMAIN fresh |-> <<fresh[k], InputLevel(fresh[k], last, level)>>],
                 vis2>>
       ELSE <<nds, a2, c2, vis2>>

\* one iteration of the loop of reindex, elem being the node taken from
\* all_nodes when curr_nodes is empty: <<nodes, all_nodes, curr_nodes, visited>> after it
ReindexIter(nds, all, curr, vis, elem) ==
    LET c1 == IF curr = <<>> THEN <<<<elem, RootLevel>>>> ELSE curr
        a1 == IF curr = <<>> THEN all \ {elem} ELSE all
        n == c1[1][1]
        level == c1[1][2]
        c2 == Tail(c1)
        vis2 == Append(vis, <<n, level>>)
        a2 == a1 \ {n}
    IN IF At(nds, n).inputs # <<>>
       THEN LET sorted == SortByKey(At(nds, n).inputs, Orders(nds))
                last == sorted[Len(sorted)]
            IN <<[nds EXCEPT ![n + 1].inputs = sorted],
                 a2 \ Range(sorted),
                 c2 \o [k \in DOMAIN sorted |-> <<sorted[k], InputLevel(sorted[k], last, level)>>],
                 vis2>>
       ELSE <<nds, a2, c2, vis2>>

ReindexStep ==
    /\ pc = "reindex"
    /\ ~(curr_nodes = <<>> /\ all_nodes = {})
    /\ \E elem \in Seeds(all_nodes, curr_nodes) :
        LET st == ReindexIter(nodes, all_nodes, curr_nodes, visited, elem)
        IN /\ nodes' = st[1]
           /\ all_nodes' = st[2]
           /\ curr_nodes' = st[3]
           /\ visited' = st[4]
    /\ UNCHANGED <<env, pc, ret, parseVars, orderVars, output, printVars, harnessVars>>

\* inputs_map: collecting the (old, new) pairs into a HashMap keeps the last
\* pair of an old index
InputsMap(vis) ==
    [old \in {vis[i][1] : i \in DOMAIN vis} |->
        (CHOOSE i \in DOMAIN vis :
            vis[i][1] = old /\ \A j \in DOMAIN vis : vis[j][1] = old => j <= i) - 1]

\* a mutant of NewNodes: the clones stand in the reverse of the visit order
NewNodesLastVisitFirst(nds, vis) ==
    LET rev == [i \in DOMAIN vis |-> vis[Len(vis) + 1 - i]]
        inputs_map == InputsMap(rev)
    IN [i \in DOMAIN rev |->
          LET n1 == set_index(At(nds, rev[i][1]), i - 1)
              n2 == set_inputs(n1, [k \in DOMAIN n1.inputs |-> inputs_map[n1.inputs[k]]])
              n3 == IF n2.output # None
                    THEN set_output(n2, inputs_map[n2.output[1]])
                    ELSE n2
          IN set_attr(n3, "level", AttrNumber(rev[i][2]))]

\* new_nodes: the clones in visit order, index, inputs, output and level set
NewNodes(nds, vis) ==
    LET inputs_map == InputsMap(vis)
    IN [i \in DOMAIN vis |->
          LET n1 == set_index(At(nds, vis[i][1]), i - 1)
              n2 == set_inputs(n1, [k \in DOMAIN n1.inputs |-> inputs_map[n1.inputs[k]]])
              n3 == IF n2.output # None
                    THEN set_output(n2, inputs_map[n2.output[1]])
                    ELSE n2
          IN set_attr(n3, "level", AttrNumber(vis[i][2]))]

\* new_indices: collecting the (name, index) pairs keeps the last pair of a name
NewIndices(nds) ==
    [name \in {nds[i].name : i \in DOMAIN nds} |->
        nds[CHOOSE i \in DOMAIN nds :
               nds[i].name = name /\ \A j \in DOMAIN nds : nds[j].name = name => j <= i].index]

\* the loop of reindex breaks: the new nodes and indices replace the old
ReindexDone ==
    /\ pc = "reindex"
    /\ curr_nodes = <<>> /\ all_nodes = {}
    /\ LET new_nodes == NewNodes(nodes, visited)
       IN ReindexReturn(NewIndices(new_nodes), new_nodes)
    /\ UNCHANGED <<env, ret, inputs, output_map, line, orderVars, printVars, ops, before,
                   result>>

(***************************************************************************)
(* Calls made on the Network that from_file returned: net.order(),         *)
(* net.reindex(), or net.order() and then net.reindex() as from_file does. *)
(***************************************************************************)
\* net.order()
CallOrder ==
    /\ pc = "ready"
    /\ ops = <<>>
    /\ ops' = Append(ops, <<"order">>)
    /\ before' = Some(Network(indices, nodes))
    /\ ret' = "api"
    /\ pc' = "order"
    /\ all_nodes' = AllIndices(nodes)
    /\ order_queue' = <<>>
    /\ UNCHANGED <<env, parseVars, nodes, reindexVars, printVars, ingested, result>>

\* net.reindex()
CallReindex ==
    /\ pc = "ready"
    /\ ops \in {<<>>, <<<<"order">>>>}
    /\ ops' = Append(ops, <<"reindex">>)
    /\ before' = Some(Network(indices, nodes))
    /\ ret' = "api"
    /\ ReindexEnter
    /\ UNCHANGED <<env, inputs, output_map, line, orderVars, printVars, result>>

(***************************************************************************)
(* Network::graph_print, called with the default label template {index}.   *)
(* A printed line is a sequence of tokens: the glyphs, one character each, *)
(* and the text of a node, one token.                                      *)
(***************************************************************************)
\* node.format(template) for the label template {index}
Format(node) == node.variables["index"]

\* struct GraphNode
GraphNode(text, pre, post, merge) == [text |-> text, pre |-> pre, post |-> post, merge |-> merge]

RECURSIVE PushInputsUnchecked(_, _, _)
\* a mutant of PushInputs: every input is pushed, also one visited before
PushInputsUnchecked(ins, all, curr) ==
    IF ins = <<>> THEN <<all, curr>>
    ELSE PushInputsUnchecked(Tail(ins), all \ {Head(ins)}, Append(curr, Head(ins)))

RECURSIVE PushInputs(_, _, _)
\* `for &inp in node.inputs.iter()`: <<all_nodes, curr_nodes>> after it
PushInputs(ins, all, curr) ==
    IF ins = <<>> THEN <<all, curr>>
    ELSE IF Head(ins) \in all
    THEN PushInputs(Tail(ins), all \ {Head(ins)}, Append(curr, Head(ins)))
    ELSE PushInputs(Tail(ins), all, curr)

\* one iteration of the loop of graph_print, elem being the node taken from
\* all_nodes when curr_nodes is empty: <<all_nodes, curr_nodes, graph_nodes>> after it
GraphIter(nds, all, curr, gns, elem) ==
    LET c1 == IF curr = <<>> THEN <<elem>> ELSE curr
        a1 == IF curr = <<>> THEN all \ {elem} ELSE all
        n == c1[Len(c1)]
        c2 == SubSeq(c1, 1, Len(c1) - 1)
        node == At(nds, n)
        level == read_number(get_attr(node, "level")[1])[1]
        parent == At(nds, IF node.output # None THEN node.output[1] ELSE node.index)
        par_level == read_number(get_attr(parent, "level")[1])[1]
        gnd == GraphNode(Format(node), level, 0, level # par_level)
        st == PushInputs(node.inputs, a1, c2)
    IN <<st[1], st[2], Append(gns, gnd)>>

\* n times " |"
Pipes(n) == [i \in 1..(2 * n) |-> IF i % 2 = 1 THEN " " ELSE "|"]

\* graph_cmps: the glyphs in front of the text of a node
GraphCmps(gnd) ==
    LET pre == Pipes(gnd.pre)
        popped == IF pre = <<>> THEN pre ELSE SubSeq(pre, 1, Len(pre) - 1)
        merged == IF gnd.merge THEN Append(popped, "+") ELSE pre
        star == merged \o (IF gnd.merge THEN <<"-", "*">> ELSE <<" ", "*">>)
    IN star \o Pipes(gnd.post)

\* the sequence s, last element first
Reversed(s) == [i \in DOMAIN s |-> s[Len(s) + 1 - i]]

\* the greatest of the numbers of a non-empty sequence
MaxOf(s) == CHOOSE x \in Range(s) : \A y \in Range(s) : y <= x

\* {1:0$}: s padded with spaces on its right to the width w
PadRight(s, w) == s \o [i \in 1..(w - Len(s)) |-> " "]

\* the connector line under a node: gnd.pre pipes, one more where the node
\* does not merge, and gnd.post pipes
ConnectorLine(gnd) ==
    Pipes(gnd.pre + (IF gnd.merge THEN 0 ELSE 1)) \o Pipes(gnd.post)

RECURSIVE PrintedLines(_, _)
\* the lines printed of the graph nodes gns, in this order: of each the label
\* line and the connector line
PrintedLines(gns, max_width) ==
    IF gns = <<>> THEN <<>>
    ELSE <<PadRight(GraphCmps(Head(gns)), max_width) \o <<" ", " ">> \o <<Head(gns).text>>,
           ConnectorLine(Head(gns))>>
         \o PrintedLines(Tail(gns), max_width)

\* what graph_print prints of its graph_nodes
GraphText(gns) ==
    LET rev == Reversed(gns)
        max_width == MaxOf([i \in DOMAIN rev |-> Len(GraphCmps(rev[i]))])
    IN PrintedLines(rev, max_width)

\* net.graph_print(&templ.label), on the network from_file returned
CallGraphPrint ==
    /\ pc = "ready"
    /\ ops = <<>>
    /\ ops' = Append(ops, <<"graph_print">>)
    /\ before' = Some(Network(indices, nodes))
    /\ IF nodes = <<>>
       THEN UNCHANGED <<pc, all_nodes, curr_nodes, graph_nodes>>
       ELSE /\ pc' = "graph"
            /\ graph_nodes' = <<>>
            /\ all_nodes' = 1..(Len(nodes) - 1)
            /\ curr_nodes' = <<0>>
    /\ UNCHANGED <<env, ret, parseVars, nodes, orderVars, output, visited, stdout, ingested,
                   result>>

GraphStep ==
    /\ pc = "graph"
    /\ ~(curr_nodes = <<>> /\ all_nodes = {})
    /\ \E elem \in Seeds(all_nodes, curr_nodes) :
        LET st == GraphIter(nodes, all_nodes, curr_nodes, graph_nodes, elem)
        IN /\ all_nodes' = st[1]
           /\ curr_nodes' = st[2]
           /\ graph_nodes' = st[3]
    /\ UNCHANGED <<env, pc, ret, parseVars, nodes, orderVars, output, visited, stdout,
                   harnessVars>>

\* the loop of graph_print breaks and the lines are printed
GraphDone ==
    /\ pc = "graph"
    /\ curr_nodes = <<>> /\ all_nodes = {}
    /\ stdout' = stdout \o GraphText(graph_nodes)
    /\ graph_nodes' = <<>>
    /\ pc' = "ready"
    /\ UNCHANGED <<env, ret, parseVars, nodes, all_nodes, orderVars, reindexVars, harnessVars>>

(***************************************************************************)
(* Network::graph_print_dot and Network::generate_latex_table.  Both walk  *)
(* the nodes with the same loop; a printed line is a sequence of tokens, a *)
(* number printed being one token, its text.                               *)
(***************************************************************************)
\* a mutant of VisitIter: the inputs are pushed in their own order
VisitIterInputOrder(nds, all, curr, elem) ==
    LET c1 == IF curr = <<>> THEN <<elem>> ELSE curr
        a1 == IF curr = <<>> THEN all \ {elem} ELSE all
        n == c1[Len(c1)]
        st == PushInputs(At(nds, n).inputs, a1, SubSeq(c1, 1, Len(c1) - 1))
    IN <<st[1], st[2], n>>

\* one iteration of the loop of either emitter, elem being the node taken
\* from all_nodes when curr_nodes is empty: <<all_nodes, curr_nodes, n>>
\* after it, n the node popped
VisitIter(nds, all, curr, elem) ==
    LET c1 == IF curr = <<>> THEN <<elem>> ELSE curr
        a1 == IF curr = <<>> THEN all \ {elem} ELSE all
        n == c1[Len(c1)]
        st == PushInputs(Reversed(At(nds, n).inputs), a1, SubSeq(c1, 1, Len(c1) - 1))
    IN <<st[1], st[2], n>>

\* *node.get_attr("level").unwrap().read_number().unwrap()
LevelOf(node) == read_number(get_attr(node, "level")[1])[1]

\* --node-offset: the default 1, or 0, or 2
NodeOffsets == {0, 1, 2}

\* --label-offset, --node-size, --node-shape, --label-shape: the defaults
LabelOffset == 1

NodeSize == 30

NodeShape == "circle"

LabelShape == "plain"

\* --sort-by: none, or the attribute order
SortBys == {None, Some("order")}

\* --direction: the default, and the one that swaps the axes
Directions == {"TopToBottom", "LeftToRight"}

\* a mutant of DotPlace: the second coordinate comes from the index of the node
DotPlaceByIndex(n, level, k, node_offset) == <<n, level * node_offset, n * node_offset>>

\* the entry of graph_nodes for the node n, k nodes placed before it
DotPlace(n, level, k, node_offset) == <<n, level * node_offset, k * node_offset>>

\* struct GraphVizSettings
GraphVizSettings(sort_by, direction, node_offset) ==
    [sort_by |-> sort_by, direction |-> direction, node_offset |-> node_offset]

\* the settings of the graph_print_dot call under way
Settings == ops[Len(ops)][2]

\* the second coordinates after the sort by the attribute sb: the rank of
\* every node among all, times the offset
SortedY(nds, gns, sb, node_offset) ==
    LET attrs == [k \in DOMAIN nds |-> read_value(get_attr(nds[k], sb)[1])[1]]
        ind == SortByKey([k \in DOMAIN gns |-> k - 1], attrs)
        y_map == [v \in Range(ind) |-> ((CHOOSE k \in DOMAIN ind : ind[k] = v) - 1) * node_offset]
    IN [k \in DOMAIN gns |-> <<gns[k][1], gns[k][2], y_map[gns[k][1]]>>]

\* node.format(template) for the template {name}
FormatName(node) == node.variables["name"]

RECURSIVE DotLines(_, _, _, _, _)
\* the lines of the graph nodes gns: of each its own line, the line of its
\* label, the edge to its label and, where it has an output, the edge to it
DotLines(nds, gns, horizontal, max_x, max_y) ==
    IF gns = <<>> THEN <<>>
    ELSE LET n == Head(gns)[1]
             x == IF horizontal THEN max_y - Head(gns)[3] ELSE Head(gns)[2]
             y == IF horizontal THEN Head(gns)[2] ELSE Head(gns)[3]
             node == At(nds, n)
             index == ToString(node.index)
         IN <<<<index, " [pos=\"", ToString(x), ",", ToString(y), "!\", size=",
                ToString(NodeSize), ", fixedsize=true", ",label=\"", Format(node), "\"", "]">>,
              <<"l", index, " [shape=", LabelShape, ",pos=\"",
                ToString(IF horizontal THEN x ELSE max_x + LabelOffset), ",",
                ToString(IF horizontal THEN max_x + LabelOffset ELSE y), "!\", label=\"",
                Format(node), "\",fontsize=42", "]">>,
              <<index, " -> l", index, " [color=none]">>>>
            \o (IF node.output # None
                THEN <<<<index, " -> ", ToString(At(nds, node.output[1]).index)>>>>
                ELSE <<>>)
            \o DotLines(nds, Tail(gns), horizontal, max_x, max_y)

\* what graph_print_dot prints of its graph_nodes
DotText(nds, gns, settings) ==
    LET placed == IF settings.sort_by # None
                  THEN SortedY(nds, gns, settings.sort_by[1], settings.node_offset)
                  ELSE gns
        max_x == MaxOf([k \in DOMAIN placed |-> placed[k][2]])
        max_y == MaxOf([k \in DOMAIN placed |-> placed[k][3]])
    IN <<<<"digraph network {">>, <<" overlap=true;">>,
         <<" node [shape=", NodeShape, ",fixedsize=false];">>>>
       \o DotLines(nds, placed, settings.direction = "LeftToRight", max_x, max_y)
       \o <<<<"}">>>>

\* net.graph_print_dot(&settings), on the network from_file returned
CallGraphPrintDot ==
    /\ pc = "ready"
    /\ ops = <<>>
    /\ \E sort_by \in SortBys, direction \in Directions, node_offset \in NodeOffsets :
          ops' = Append(ops, <<"graph_print_dot",
                               GraphVizSettings(sort_by, direction, node_offset)>>)
    /\ before' = Some(Network(indices, nodes))
    /\ IF nodes = <<>>
       THEN UNCHANGED <<pc, all_nodes, curr_nodes, graph_nodes>>
       ELSE /\ pc' = "dot"
            /\ graph_nodes' = <<>>
            /\ all_nodes' = 1..(Len(nodes) - 1)
            /\ curr_nodes' = <<0>>
    /\ UNCHANGED <<env, ret, parseVars, nodes, orderVars, output, visited, stdout, ingested,
                   result>>

DotStep ==
    /\ pc = "dot"
    /\ ~(curr_nodes = <<>> /\ all_nodes = {})
    /\ \E elem \in Seeds(all_nodes, curr_nodes) :
        LET st == VisitIter(nodes, all_nodes, curr_nodes, elem)
        IN /\ all_nodes' = st[1]
           /\ curr_nodes' = st[2]
           /\ graph_nodes' = Append(graph_nodes,
                                    DotPlace(st[3], LevelOf(At(nodes, st[3])),
                                             Len(graph_nodes), Settings.node_offset))
    /\ UNCHANGED <<env, pc, ret, parseVars, nodes, orderVars, output, visited, stdout,
                   harnessVars>>

\* the loop of graph_print_dot breaks and the graph is printed
DotDone ==
    /\ pc = "dot"
    /\ curr_nodes = <<>> /\ all_nodes = {}
    /\ stdout' = stdout \o DotText(nodes, graph_nodes, Settings)
    /\ pc' = "ready"
    /\ UNCHANGED <<env, ret, parseVars, nodes, all_nodes, orderVars, reindexVars, graph_nodes,
                   harnessVars>>

\* the header of the table: the name of the column and its template {name}
LatexTable == <<<<"Name", "name">>>>

\* what generate_latex_table prints in front of the rows
LatexHead(latex_table) ==
    <<<<"\\documentclass{standalone}">>, <<>>,
      <<"\\usepackage{array}">>, <<"\\usepackage{booktabs}">>, <<"\\usepackage{multirow}">>,
      <<"\\usepackage{graphicx}">>, <<"\\usepackage[hidelinks]{hyperref}">>,
      <<"\\usepackage{tikz}">>, <<"\\usetikzlibrary{tikzmark}">>, <<>>,
      <<"\\newcommand{\\TikzNode}[4][0]{%">>,
      <<"  \\tikz[overlay,remember picture]{\\draw (#1 / 2 +0.5, 0.1) circle [radius=0.14] node (#2) {\\href{#4}{\\tiny #3}};}}">>,
      <<>>, <<>>, <<"\\begin{document}">>, <<>>,
      <<"  \\begin{tabular}{", JoinStr([k \in 1..(Len(latex_table) + 1) |-> "l"], ""), "}">>,
      <<"    \\toprule">>,
      <<"Connection">> \o [k \in DOMAIN latex_table |-> " & " \o latex_table[k][1]] \o <<"\\\\">>,
      <<"\\midrule">>>>

RECURSIVE LatexRows(_, _)
\* the rows of the graph nodes gns, in this order
LatexRows(nds, gns) ==
    IF gns = <<>> THEN <<>>
    ELSE LET node == At(nds, Head(gns)[1])
             index == ToString(node.index)
         IN <<<<"\\TikzNode[", ToString(Head(gns)[2]), "]{", index, "}{", index, "}{", "", "}",
                " & ", FormatName(node), "\\\\">>>>
            \o LatexRows(nds, Tail(gns))

RECURSIVE LatexConnections(_, _)
\* connections_list: an edge for every node of gns that has an output
LatexConnections(nds, gns) ==
    IF gns = <<>> THEN <<>>
    ELSE LET node == At(nds, Head(gns)[1])
         IN (IF node.output # None
             THEN <<<<"\\path[->] (", ToString(node.index), ") edge (",
                      ToString(At(nds, node.output[1]).index), ");">>>>
             ELSE <<>>)
            \o LatexConnections(nds, Tail(gns))

\* what generate_latex_table prints of its graph_nodes
LatexText(nds, gns, latex_table) ==
    LatexHead(latex_table)
    \o LatexRows(nds, Reversed(gns))
    \o <<<<"\\bottomrule">>, <<"\\end{tabular}">>, <<"\\tikz[overlay,remember picture]{">>>>
    \o LatexConnections(nds, Reversed(gns))
    \o <<<<"}">>, <<"\\end{document}">>>>

\* net.generate_latex_table(&self.latex_table, &templ.url), on the network
\* from_file returned
CallLatexTable ==
    /\ pc = "ready"
    /\ ops = <<>>
    /\ ops' = Append(ops, <<"generate_latex_table", LatexTable>>)
    /\ before' = Some(Network(indices, nodes))
    /\ IF nodes = <<>>
       THEN UNCHANGED <<pc, all_nodes, curr_nodes, graph_nodes>>
       ELSE /\ pc' = "latex"
            /\ graph_nodes' = <<>>
            /\ all_nodes' = 1..(Len(nodes) - 1)
            /\ curr_nodes' = <<0>>
    /\ UNCHANGED <<env, ret, parseVars, nodes, orderVars, output, visited, stdout, ingested,
                   result>>

LatexStep ==
    /\ pc = "latex"
    /\ ~(curr_nodes = <<>> /\ all_nodes = {})
    /\ \E elem \in Seeds(all_nodes, curr_nodes) :
        LET st == VisitIter(nodes, all_nodes, curr_nodes, elem)
        IN /\ all_nodes' = st[1]
           /\ curr_nodes' = st[2]
           /\ graph_nodes' = Append(graph_nodes,
                                    <<st[3], LevelOf(At(nodes, st[3])), Len(graph_nodes)>>)
    /\ UNCHANGED <<env, pc, ret, parseVars, nodes, orderVars, output, visited, stdout,
                   harnessVars>>

\* the loop of generate_latex_table breaks and the table is printed
LatexDone ==
    /\ pc = "latex"
    /\ curr_nodes = <<>> /\ all_nodes = {}
    /\ stdout' = stdout \o LatexText(nodes, graph_nodes, ops[Len(ops)][2])
    /\ pc' = "ready"
    /\ UNCHANGED <<env, ret, parseVars, nodes, all_nodes, orderVars, reindexVars, graph_nodes,
                   harnessVars>>

(***************************************************************************)
(* Network::cumulate.  A variable of the call is a sequence of tokens, the *)
(* last of them "?" for the safe mode.                                     *)
(***************************************************************************)
\* Ok(()) and Err(message)
Ok == [ok |-> TRUE, msg |-> ""]

Err(msg) == [ok |-> FALSE, msg |-> msg]

\* the messages of get_values
MsgNoAttr(name, var) == "Node " \o name \o " doesn't have attribute " \o var

MsgNotFloat(name, var) == "Node " \o name \o ", attribute " \o var \o " is not parsable as float"

\* var.ends_with('?')
IsSafe(arg) == arg # <<>> /\ arg[Len(arg)] = "?"

\* a mutant of VarOf: the '?' is not cut
VarOfWhole(arg) == Text(arg)

\* the variable of an argument: &var[..(var.len() - 1)] in the safe mode
VarOf(arg) == IF IsSafe(arg) THEN Text(SubSeq(arg, 1, Len(arg) - 1)) ELSE Text(arg)

\* the key cumulate stores under: format!("cum_{var}")
CumKey(var) == "cum_" \o var

\* a mutant of NodeValue: the value is read from an earlier cum_ result
\* where there is one
NodeValueCompounding(node, var, safe) ==
    LET a == IF get_attr(node, CumKey(var)) # None
             THEN get_attr(node, CumKey(var))
             ELSE get_attr(node, var)
    IN IF safe
       THEN [res |-> Ok,
             val |-> IF a # None /\ read_value(a[1]) # None THEN read_value(a[1])[1] ELSE 0]
       ELSE IF a = None
       THEN [res |-> Err(MsgNoAttr(node.name, var)), val |-> 0]
       ELSE IF read_value(a[1]) = None
       THEN [res |-> Err(MsgNotFloat(node.name, var)), val |-> 0]
       ELSE [res |-> Ok, val |-> read_value(a[1])[1]]

\* the value get_values reads of one node: Ok and the value, or the Err
NodeValue(node, var, safe) ==
    LET a == get_attr(node, var)
    IN IF safe
       THEN [res |-> Ok,
             val |-> IF a # None /\ read_value(a[1]) # None THEN read_value(a[1])[1] ELSE 0]
       ELSE IF a = None
       THEN [res |-> Err(MsgNoAttr(node.name, var)), val |-> 0]
       ELSE IF read_value(a[1]) = None
       THEN [res |-> Err(MsgNotFloat(node.name, var)), val |-> 0]
       ELSE [res |-> Ok, val |-> read_value(a[1])[1]]

RECURSIVE get_values(_, _, _, _, _)
\* get_values from node k on: the values map keyed by node name, or the first Err
get_values(nds, k, var, safe, values) ==
    IF k > Len(nds) THEN [res |-> Ok, values |-> values]
    ELSE LET v == NodeValue(nds[k], var, safe)
         IN IF v.res.ok
            THEN get_values(nds, k + 1, var, safe, MapInsert(values, nds[k].name, v.val))
            ELSE [res |-> v.res, values |-> values]

\* a mutant of AddDownstream: val is added to the output of the node only
AddToOutputOnly(nds, values, out, val) ==
    IF out = None THEN values
    ELSE MapInsert(values, At(nds, out[1]).name, values[At(nds, out[1]).name] + val)

RECURSIVE AddDownstream(_, _, _, _)
\* the inner loop of cumulate: val is added to every node on the output chain
AddDownstream(nds, values, out, val) ==
    IF out = None THEN values
    ELSE LET name == At(nds, out[1]).name
         IN AddDownstream(nds, MapInsert(values, name, values[name] + val),
                          At(nds, out[1]).output, val)

RECURSIVE Accumulate(_, _, _)
\* `for node in &cl.nodes`, from node k on
Accumulate(nds, k, values) ==
    IF k > Len(nds) THEN values
    ELSE Accumulate(nds, k + 1,
                    AddDownstream(nds, values, nds[k].output, values[nds[k].name]))

\* a mutant of set_values: the sum is stored over the attribute it was read of
set_values_over_base(nds, var, values) ==
    [i \in DOMAIN nds |-> set_attr(nds[i], var, AttrValue(values[nds[i].name]))]

\* set_values
set_values(nds, var, values) ==
    [i \in DOMAIN nds |-> set_attr(nds[i], CumKey(var), AttrValue(values[nds[i].name]))]

RECURSIVE CumulateVars(_, _)
\* `for var in variables`: the nodes and the Result of cumulate
CumulateVars(nds, variables) ==
    IF variables = <<>> THEN [nodes |-> nds, res |-> Ok]
    ELSE LET var == VarOf(Head(variables))
             got == get_values(nds, 1, var, IsSafe(Head(variables)), EmptyMap)
         IN IF ~got.res.ok
            THEN [nodes |-> nds, res |-> got.res]
            ELSE CumulateVars(set_values(nds, var, Accumulate(nds, 1, got.values)),
                              Tail(variables))

\* Network::cumulate
cumulate(nds, variables) ==
    IF nds = <<>> THEN [nodes |-> nds, res |-> Ok] ELSE CumulateVars(nds, variables)

\* the variables a call is made with
VarArgs == {<<"x">>, <<"v">>, <<"v", "?">>, <<"inputs">>}

RECURSIVE SeqsUpTo(_, _)
SeqsUpTo(S, n) ==
    IF n = 0 THEN {<<>>}
    ELSE SeqsUpTo(S, n - 1) \cup {Append(q, x) : q \in SeqsUpTo(S, n - 1), x \in S}

\* net.cumulate(&variables), and then the same call once more
CallCumulate ==
    /\ pc = "ready"
    /\ \E variables \in SeqsUpTo(VarArgs, MaxVars) :
        LET r == cumulate(nodes, variables)
        IN /\ ops \in {<<>>, <<<<"cumulate", variables>>>>}
           /\ nodes' = r.nodes
           /\ result' = Some(r.res)
           /\ ops' = Append(ops, <<"cumulate", variables>>)
    /\ before' = Some(Network(indices, nodes))
    /\ UNCHANGED <<env, pc, ret, parseVars, all_nodes, orderVars, reindexVars, printVars,
                   ingested>>

(***************************************************************************)
(* The specifications.                                                     *)
(***************************************************************************)
InitEnv(e) ==
    /\ env = e
    /\ pc = "parse"
    /\ ret = "from_file"
    /\ indices = EmptyMap
    /\ inputs = <<>>
    /\ output_map = EmptyMap
    /\ line = <<>>
    /\ nodes = <<>>
    /\ all_nodes = {}
    /\ order_queue = <<>>
    /\ output = 0
    /\ visited = <<>>
    /\ curr_nodes = <<>>
    /\ graph_nodes = <<>>
    /\ stdout = <<>>
    /\ ingested = None
    /\ ops = <<>>
    /\ before = None
    /\ result = None

\* a well-formed connection file of at most MaxNodes names, no attribute files
Init ==
    InitEnv([wf |-> TRUE, renamed |-> TRUE, echo |-> FALSE, names |-> NodeNames, cap |-> MaxNodes,
             fs |-> NoFiles, file |-> None])

Ingest ==
    \/ ReadLine
    \/ EndOfFile
    \/ OrderStep
    \/ OrderDone
    \/ RootStep
    \/ RootFound
    \/ ReindexStep
    \/ ReindexDone

Next == Ingest

\* from_file on a well-formed connection file
Spec == Init /\ [][Next]_vars

\* the orders of first use of the files of SpecNamed: the first four names
\* in the order A, C, B, D, in the order D, C, B, A and in the order B, A, D, C
FirstUses ==
    {<<"A", "C", "B", "D", "E", "F">>,
     <<"D", "C", "B", "A", "E", "F">>,
     <<"B", "A", "D", "C", "E", "F">>}

\* a well-formed connection file of at most MaxNodes names that come into
\* the file in one of these orders
InitNamed ==
    \E names \in FirstUses :
        InitEnv([wf |-> TRUE, renamed |-> TRUE, echo |-> FALSE, names |-> names, cap |-> MaxNodes,
                 fs |-> NoFiles, file |-> None])

\* from_file on a well-formed connection file, the loop of order going on as
\* long as it can and breaking when it can
SpecFair == Spec /\ WF_vars(OrderStep) /\ WF_vars(OrderDone)

\* from_file on such a file
SpecNamed == InitNamed /\ [][Next]_vars

\* a mutant of OrderPanic: order does not fail there, it hangs
OrderHangs ==
    /\ pc = "order"
    /\ ~(all_nodes = {} /\ order_queue = <<>>)
    /\ \E elem \in Seeds(all_nodes, order_queue) :
          OrderPanics(nodes, all_nodes, order_queue, elem)
    /\ UNCHANGED vars

\* order stops with a failure: an unwrap of the order attribute of an input
\* that has none panics
OrderPanic ==
    /\ pc = "order"
    /\ ~(all_nodes = {} /\ order_queue = <<>>)
    /\ \E elem \in Seeds(all_nodes, order_queue) :
          OrderPanics(nodes, all_nodes, order_queue, elem)
    /\ pc' = "panicked"
    /\ UNCHANGED <<env, ret, parseVars, nodes, all_nodes, orderVars, reindexVars, printVars,
                   harnessVars>>

\* any connection file of at most MaxParseNodes names and MaxEdges edge lines:
\* the names in any order, a name may be the source of several edge lines,
\* and the edges may close a cycle
InitParse ==
    InitEnv([wf |-> FALSE, renamed |-> FALSE, echo |-> TRUE, names |-> NodeNames,
             cap |-> MaxParseNodes,
             fs |-> NoFiles, file |-> None])

NextParse ==
    \/ ReadLine
    \/ EndOfFile

\* from_file on any connection file, up to its call of order
SpecParse == InitParse /\ [][NextParse]_vars

\* such a file of at most MaxRawNodes names, its names coming into it in the
\* order of NodeNames
InitRaw ==
    InitEnv([wf |-> FALSE, renamed |-> TRUE, echo |-> FALSE, names |-> NodeNames,
             cap |-> MaxRawNodes,
             fs |-> NoFiles, file |-> None])

NextRaw ==
    \/ Ingest
    \/ OrderPanic

\* from_file on any connection file
SpecRaw == InitRaw /\ [][NextRaw]_vars

\* the loop of order goes on as long as it can, and a panic is not put off
SpecRawFair == SpecRaw /\ WF_vars(OrderStep) /\ WF_vars(OrderPanic)

\* any connection file of at most MaxLoopNodes names and MaxEdges edge lines,
\* every node with an order in its attribute file
InitLoop ==
    InitEnv([wf |-> FALSE, renamed |-> TRUE, echo |-> FALSE, names |-> NodeNames,
             cap |-> MaxLoopNodes,
             fs |-> OrderFiles, file |-> None])

\* the loop of reindex, followed for MaxVisits visits
ReindexStepBounded ==
    /\ Len(visited) < MaxVisits
    /\ ReindexStep

\* every input has an order from its file, so no unwrap of order fails
NextLoop ==
    \/ ReadLine
    \/ EndOfFile
    \/ OrderStep
    \/ OrderDone
    \/ RootStep
    \/ RootFound
    \/ ReindexStepBounded
    \/ ReindexDone

\* from_file on such a file
SpecLoop == InitLoop /\ [][NextLoop]_vars

\* a well-formed connection file of at most MaxMirrorNodes names; no
\* attribute files, or files that set attributes named as the fields are
InitMirror ==
    \E fs \in {NoFiles, FieldFiles} :
        InitEnv([wf |-> TRUE, renamed |-> TRUE, echo |-> FALSE, names |-> NodeNames,
                 cap |-> MaxMirrorNodes,
                 fs |-> fs, file |-> None])

NextMirror ==
    \/ Ingest
    \/ CallReindex

\* from_file, then reindex called on the network
SpecMirror == InitMirror /\ [][NextMirror]_vars

\* a well-formed connection file of at most MaxEmitNodes names
InitEmit ==
    InitEnv([wf |-> TRUE, renamed |-> TRUE, echo |-> FALSE, names |-> NodeNames,
             cap |-> MaxEmitNodes,
             fs |-> NoFiles, file |-> None])

NextEmit ==
    \/ Ingest
    \/ CallGraphPrintDot
    \/ DotStep
    \/ DotDone
    \/ CallLatexTable
    \/ LatexStep
    \/ LatexDone

\* from_file, then graph_print_dot or generate_latex_table called on the network
SpecEmit == InitEmit /\ [][NextEmit]_vars

NextCalls ==
    \/ Ingest
    \/ CallOrder
    \/ CallReindex

\* from_file, then order and reindex called on the network
SpecCalls == Init /\ [][NextCalls]_vars

\* a well-formed connection file of at most MaxPrintNodes names
InitPrint ==
    InitEnv([wf |-> TRUE, renamed |-> TRUE, echo |-> FALSE, names |-> NodeNames,
             cap |-> MaxPrintNodes,
             fs |-> NoFiles, file |-> None])

NextPrint ==
    \/ Ingest
    \/ CallGraphPrint
    \/ GraphStep
    \/ GraphDone

\* from_file, then graph_print called on the network
SpecPrint == InitPrint /\ [][NextPrint]_vars

\* the connection file SideFile or StemFile, or a part of it from its start
InitSide ==
    \E file \in {SideFile, StemFile} :
        InitEnv([wf |-> TRUE, renamed |-> TRUE, echo |-> FALSE, names |-> NodeNames,
                 cap |-> Len(NodeNames),
                 fs |-> NoFiles, file |-> Some(file)])

\* the loop of graph_print, followed for MaxGraphVisits visits
GraphStepBounded ==
    /\ Len(graph_nodes) < MaxGraphVisits
    /\ GraphStep

NextSide ==
    \/ Ingest
    \/ CallGraphPrint
    \/ GraphStepBounded

\* from_file on such a file, then graph_print called on the network
SpecSide == InitSide /\ [][NextSide]_vars

\* a well-formed connection file of at most MaxCumNodes names and the
\* attribute files of its nodes
InitCum ==
    \E fs \in {UnitFiles, MixedFiles} :
        InitEnv([wf |-> TRUE, renamed |-> TRUE, echo |-> FALSE, names |-> NodeNames,
                 cap |-> MaxCumNodes,
                 fs |-> fs, file |-> None])

NextCum ==
    \/ Ingest
    \/ CallCumulate

\* from_file, then cumulate called on the network
SpecCum == InitCum /\ [][NextCum]_vars

(***************************************************************************)
(* What the claims speak of.                                               *)
(***************************************************************************)
\* the value of the Number attribute key of node, -1 when it has none
NumberAttr(node, key) ==
    IF key \in DOMAIN node.attrs /\ node.attrs[key].tag = "Number"
    THEN node.attrs[key].val
    ELSE -1

\* the value of the Value attribute key of node, -1 when it has none
ValueAttr(node, key) ==
    IF key \in DOMAIN node.attrs /\ node.attrs[key].tag = "Value"
    THEN node.attrs[key].val
    ELSE -1

\* the loop of order has just ended
OrderEnded == pc = "order" /\ all_nodes = {} /\ order_queue = <<>>

\* from_file has returned and no call was made on the network since
Ingested == pc = "ready" /\ ops = <<>>

\* the nodes without output
Outlets(nds) == {k \in DOMAIN nds : nds[k].output = None}

\* C1: when order ends on a forest, whichever seeds were picked, every node
\* without inputs has order 1 and every other node has order 1 + the sum of
\* the orders of its inputs.
C1_OrderRecurrence ==
    OrderEnded =>
        \A k \in DOMAIN nodes :
            NumberAttr(nodes[k], "order") =
                IF nodes[k].inputs = <<>> THEN 1
                ELSE 1 + SumSeq([j \in DOMAIN nodes[k].inputs |->
                                    NumberAttr(At(nodes, nodes[k].inputs[j]), "order")])

\* order has ended on a forest of two components, one of them a confluence
\* of two leaves
C1_Witness ==
    /\ OrderEnded
    /\ Cardinality(Outlets(nodes)) = 2
    /\ \E k \in DOMAIN nodes :
        /\ Len(nodes[k].inputs) = 2
        /\ NumberAttr(nodes[k], "order") = 3

\* the positions of nds that hold a node of this name
PositionsOf(nds, name) == {i \in DOMAIN nds : nds[i].name = name}

\* C2: reindex re-orders the nodes: the new sequence is as long as the old
\* one, the node at position i has index i, every name of the old sequence
\* is in the new one exactly once, and the name-to-index map sends every
\* name to its position.
C2_ReindexReorders ==
    [][(pc = "reindex" /\ pc' = "ready") =>
          /\ Len(nodes') = Len(nodes)
          /\ \A i \in DOMAIN nodes' : nodes'[i].index = i - 1
          /\ \A k \in DOMAIN nodes : Cardinality(PositionsOf(nodes', nodes[k].name)) = 1
          /\ \A i \in DOMAIN nodes' :
                /\ nodes'[i].name \in DOMAIN indices'
                /\ indices'[nodes'[i].name] = i - 1]_vars

\* what the renderers draw of a network: by position, the name, the inputs,
\* the output and the level of the node
Layout(nds) ==
    [i \in DOMAIN nds |->
        [name |-> nds[i].name, inputs |-> nds[i].inputs, output |-> nds[i].output,
         level |-> NumberAttr(nds[i], "level")]]

\* C3: order and then reindex, run on the network from_file returned, leave
\* the node sequence, the inputs and output of every node and the level of
\* every node as they were.
C3_ReindexIdempotent ==
    (pc = "ready" /\ ops = <<<<"order">>, <<"reindex">>>>) =>
        Layout(nodes) = Layout(ingested[1].nodes)

RECURSIVE MostDownstream(_, _)
\* the most downstream point reindex finds from node i
MostDownstream(nds, i) ==
    IF At(nds, i).output = None THEN i ELSE MostDownstream(nds, At(nds, i).output[1])

\* the least element of a set of numbers
Least(S) == CHOOSE x \in S : \A y \in S : x <= y

RECURSIVE LeastSeedLoop(_, _, _, _)
\* the loop of reindex when every node seeded is the least unvisited one
LeastSeedLoop(nds, all, curr, vis) ==
    IF curr = <<>> /\ all = {} THEN NewNodes(nds, vis)
    ELSE LET st == ReindexIter(nds, all, curr, vis, IF all = {} THEN 0 ELSE Least(all))
         IN LeastSeedLoop(st[1], st[2], st[3], st[4])

\* the nodes of one run of reindex on nds: the run that seeds the least
\* unvisited node each time
LeastSeedRun(nds) ==
    IF nds = <<>> THEN nds
    ELSE LeastSeedLoop(nds, AllIndices(nds), <<<<MostDownstream(nds, 0), RootLevel>>>>, <<>>)

\* C4: a run of reindex on the network from_file returned yields the node
\* sequence and the levels that any other run on it yields, here the run
\* that seeds the least unvisited node: the seeds picked do not show in the
\* result.
C4_ReindexDeterministic ==
    (pc = "ready" /\ ops = <<<<"reindex">>>>) =>
        Layout(nodes) = Layout(LeastSeedRun(before[1].nodes))

\* C11: when reindex returns on a non-empty forest, the node at index 0 is
\* the node reached by following output from the node that had index 0
\* before; it has no output and its level is 0.
C11_RootFirst ==
    [][(pc = "reindex" /\ pc' = "ready") =>
          /\ nodes'[1].name = At(nodes, MostDownstream(nodes, 0)).name
          /\ nodes'[1].index = 0
          /\ nodes'[1].output = None
          /\ NumberAttr(nodes'[1], "level") = 0]_vars

\* from_file has returned a network of three nodes or more whose node 0 is
\* not the node the file named first: reindex moved the outlet to the front
C11_Witness ==
    /\ Ingested
    /\ Len(nodes) >= 3
    /\ nodes[1].name # NodeNames[1]
    /\ nodes[1].output = None
    /\ NumberAttr(nodes[1], "level") = 0
    /\ \E k \in DOMAIN nodes : nodes[k].name = NodeNames[1] /\ nodes[k].output # None

\* the inputs list the node with index o had when reindex was entered: the
\* one from_file built, or the one of the network reindex was called on
InputsBefore(o) ==
    IF ret = "from_file" THEN inputs[o + 1] ELSE At(before[1].nodes, o).inputs

\* the first position of x in the sequence s
PosIn(s, x) == CHOOSE i \in DOMAIN s : s[i] = x /\ \A j \in 1..(i - 1) : s[j] # x

FileACBD ==
    /\ ret = "from_file"
    /\ inputs = <<<<>>, <<0, 2>>, <<>>, <<1>>>>
    /\ output_map = (0 :> 1) @@ (2 :> 1) @@ (1 :> 3)

\* the names and the levels of a node sequence
NamesOf(nds) == [i \in DOMAIN nds |-> nds[i].name]

LevelsOf(nds) == [i \in DOMAIN nds |-> NumberAttr(nds[i], "level")]

\* C13, as stated: for the lines A -> C, B -> C, C -> D from_file returns
\* the node sequence D, C, A, B, D and C at level 0 and both A and B at level 1.
C13_ScenarioBothAtLevelOne ==
    [][(pc = "reindex" /\ pc' = "ready" /\ FileACBD
            /\ indices = [n \in {"A", "B", "C", "D"} |->
                             CASE n = "A" -> 0 [] n = "C" -> 1 [] n = "B" -> 2 [] n = "D" -> 3]) =>
          /\ NamesOf(nodes') = <<"D", "C", "A", "B">>
          /\ LevelsOf(nodes') = <<0, 0, 1, 1>>]_vars

\* C13, amended: for the lines A -> C, B -> C, C -> D from_file returns the
\* node sequence D, C, A, B with D and C at level 0, A at level 1 and B, the
\* last input of C after the stable sort, at level 0, the level of C.
C13_ScenarioLastInputContinues ==
    [][(pc = "reindex" /\ pc' = "ready" /\ FileACBD
            /\ indices = [n \in {"A", "B", "C", "D"} |->
                             CASE n = "A" -> 0 [] n = "C" -> 1 [] n = "B" -> 2 [] n = "D" -> 3]) =>
          /\ NamesOf(nodes') = <<"D", "C", "A", "B">>
          /\ LevelsOf(nodes') = <<0, 0, 1, 0>>]_vars

\* from_file has returned the network of the lines A -> C, B -> C, C -> D
C13_Witness ==
    /\ Ingested
    /\ FileACBD
    /\ NamesOf(nodes) = <<"D", "C", "A", "B">>
    /\ nodes[2].inputs = <<2, 3>>
    /\ NumberAttr(nodes[2], "order") = 3
    /\ NumberAttr(nodes[1], "order") = 4

\* the node with index i has its order
HasOrder(nds, i) == get_attr(At(nds, i), "order") # None

RECURSIVE Reaches(_, _, _)
\* following output from the node with index j comes to the node with index i
Reaches(nds, j, i) ==
    \/ j = i
    \/ At(nds, j).output # None /\ Reaches(nds, At(nds, j).output[1], i)

\* the indices of the nodes upstream of the node with index i, i among them
UpstreamOf(nds, i) == {j \in AllIndices(nds) : Reaches(nds, j, i)}

\* those of them that have no inputs
LeavesOf(nds, i) == {j \in UpstreamOf(nds, i) : At(nds, j).inputs = <<>>}

\* C16, as stated: when order ends on a forest, the order of every node is
\* the number of nodes without inputs upstream of it, itself among them.
C16_OrderIsLeafCount ==
    OrderEnded =>
        \A i \in AllIndices(nodes) :
            NumberAttr(At(nodes, i), "order") = Cardinality(LeavesOf(nodes, i))

\* C16, amended: when order ends on a forest, the order of every node is
\* the number of nodes upstream of it, itself among them.
C16_OrderIsUpstreamCount ==
    OrderEnded =>
        \A i \in AllIndices(nodes) :
            NumberAttr(At(nodes, i), "order") = Cardinality(UpstreamOf(nodes, i))

\* order has ended on a forest with a node that has two inputs, one of them
\* not a leaf: its order is 4 and two leaves are upstream of it
C16_Witness ==
    /\ OrderEnded
    /\ \E i \in AllIndices(nodes) :
          /\ Len(At(nodes, i).inputs) = 2
          /\ NumberAttr(At(nodes, i), "order") = 4
          /\ Cardinality(LeavesOf(nodes, i)) = 2

\* C17: when order ends on a forest, the order of the output of a node is
\* not less than the order of the node.
C17_OrderNeverDecreases ==
    OrderEnded =>
        \A i \in AllIndices(nodes) :
            At(nodes, i).output # None =>
                NumberAttr(At(nodes, At(nodes, i).output[1]), "order")
                    >= NumberAttr(At(nodes, i), "order")

\* order has ended on a chain of three nodes and a fourth node: the orders
\* along the chain are 1, 2, 3
C17_Witness ==
    /\ OrderEnded
    /\ Len(nodes) = 4
    /\ \E i \in AllIndices(nodes) :
          /\ NumberAttr(At(nodes, i), "order") = 2
          /\ At(nodes, i).output # None
          /\ NumberAttr(At(nodes, At(nodes, i).output[1]), "order") = 3
          /\ Len(At(nodes, At(nodes, i).output[1]).inputs) = 1

RECURSIVE OutputEnds(_, _, _)
\* following output from the node with index i ends within fuel hops
OutputEnds(nds, i, fuel) ==
    IF At(nds, i).output = None THEN TRUE
    ELSE IF fuel = 0 THEN FALSE
    ELSE OutputEnds(nds, At(nds, i).output[1], fuel - 1)

\* the output links of the nodes contain a cycle
OutputCycle(nds) == \E i \in AllIndices(nds) : ~OutputEnds(nds, i, Len(nds))

\* the links are those of a forest: no cycle of outputs, no node twice in
\* the inputs of a node, and j among the inputs of i exactly when i is the
\* output of j
ConsistentForest(nds) ==
    /\ ~OutputCycle(nds)
    /\ \A i \in AllIndices(nds) :
          LET ins == At(nds, i).inputs
          IN /\ \A a, b \in DOMAIN ins : ins[a] = ins[b] => a = b
             /\ \A j \in AllIndices(nds) :
                   j \in Range(ins) <=> At(nds, j).output = Some(i)

\* C28: while order runs on a forest of consistent links without a
\* duplicate edge, and when it has ended, every node that has its order
\* has as order the number of the nodes whose output chain comes to it,
\* itself counted.
C28_OrderIsSubtreeSize ==
    (pc \in {"order", "root"} /\ ConsistentForest(nodes)) =>
        \A i \in AllIndices(nodes) :
            HasOrder(nodes, i) =>
                read_number(get_attr(At(nodes, i), "order")[1])
                    = Some(Cardinality({j \in AllIndices(nodes) : Reaches(nodes, j, i)}))

\* order has ended on the chain of three nodes: the orders are 1, 2 and 3
C28_Witness ==
    /\ pc = "root"
    /\ ConsistentForest(nodes)
    /\ Len(nodes) = 3
    /\ \E i, j, k \in AllIndices(nodes) :
          /\ At(nodes, i).output = Some(j) /\ At(nodes, j).output = Some(k)
          /\ At(nodes, k).output = None
          /\ get_attr(At(nodes, i), "order") = Some(AttrNumber(1))
          /\ get_attr(At(nodes, j), "order") = Some(AttrNumber(2))
          /\ get_attr(At(nodes, k), "order") = Some(AttrNumber(3))

\* C20, as stated: on a network whose output links contain a cycle order
\* neither completes nor stops with a failure.
C20_OrderLoopsForever ==
    OutputCycle(nodes) => (~OrderEnded /\ pc # "panicked")

\* C20, amended: on a network whose output links contain a cycle order
\* never completes, and it does not loop without end: it stops with a failure.
C20_OrderFailsOnCycle ==
    /\ [](OutputCycle(nodes) => ~OrderEnded)
    /\ (pc = "order" /\ OutputCycle(nodes)) ~> (pc = "panicked")

\* order has stopped with a failure on a network of three nodes, two of
\* them the output of each other
C20_Witness ==
    /\ pc = "panicked"
    /\ Len(nodes) = 3
    /\ \E i, j \in AllIndices(nodes) :
          /\ i # j
          /\ At(nodes, i).output = Some(j)
          /\ At(nodes, j).output = Some(i)

\* the nodes Node::new returns for the lines read so far
NewNodesOf(ind, inps, om) ==
    [k \in DOMAIN inps |->
        NodeNew(k - 1, NameOf(ind, k - 1), inps[k],
                IF (k - 1) \in DOMAIN om THEN Some(om[k - 1]) ELSE None)]

\* the attributes index and inputs are the fields
MirrorsFields(node) ==
    /\ get_attr(node, "index") = Some(AttrNumber(node.index))
    /\ get_attr(node, "inputs") = Some(AttrVec(node.inputs))

\* the attribute output is there exactly when the field is, and is the field
MirrorsOutput(node) ==
    IF node.output = None
    THEN get_attr(node, "output") = None
    ELSE get_attr(node, "output") = Some(AttrNumber(node.output[1]))

\* the variable table has the keys of the attribute map, each with the text
\* form of the attribute
MirrorsVariables(node) ==
    /\ DOMAIN node.variables = DOMAIN node.attrs
    /\ \A key \in DOMAIN node.attrs : node.variables[key] = Display(node.attrs[key])

\* reindex has returned: to from_file, or to a caller of net.reindex()
Reindexed == pc = "ready" /\ ops \in {<<>>, <<<<"reindex">>>>}

\* the attribute files of the node set an attribute output
FileSetsOutput(node) ==
    get_attr(load_attrs_from_file(load_attrs_from_file(NodeNew(0, node.name, <<>>, None),
                                                       env.fs[node.name][1]),
                                  env.fs[node.name][2]), "output") # None

\* C23, as stated: after Node::new and after every reindex the attributes
\* index, inputs and output of every node are its fields, the attribute
\* output being there exactly when the field is, and the variable table
\* holds the text form of every attribute.
C23_AttributeMirror ==
    /\ pc = "parse" =>
          \A k \in DOMAIN inputs :
              LET node == NewNodesOf(indices, inputs, output_map)[k]
              IN MirrorsFields(node) /\ MirrorsOutput(node) /\ MirrorsVariables(node)
    /\ Reindexed =>
          \A k \in DOMAIN nodes :
              MirrorsFields(nodes[k]) /\ MirrorsOutput(nodes[k]) /\ MirrorsVariables(nodes[k])

\* C23, amended: after Node::new the attributes name, index and inputs of a
\* node are its fields and it has no attribute output, whatever its field
\* output; after every reindex the attributes index and inputs are the
\* fields, the attribute output is the field where the field is present,
\* and where it is absent the attribute is absent too unless an attribute
\* file of the node set it; in both cases the variable table holds the text
\* form of every attribute.
C23_MirrorWithoutOutputAtNew ==
    /\ pc = "parse" =>
          \A k \in DOMAIN inputs :
              LET node == NewNodesOf(indices, inputs, output_map)[k]
              IN /\ MirrorsFields(node)
                 /\ get_attr(node, "name") = Some(AttrString(node.name))
                 /\ get_attr(node, "output") = None
                 /\ MirrorsVariables(node)
    /\ Reindexed =>
          \A k \in DOMAIN nodes :
              /\ MirrorsFields(nodes[k])
              /\ nodes[k].output # None => MirrorsOutput(nodes[k])
              /\ (nodes[k].output = None /\ ~FileSetsOutput(nodes[k])) => MirrorsOutput(nodes[k])
              /\ MirrorsVariables(nodes[k])

\* a caller's reindex has returned a network of three nodes, one with two
\* inputs, whose files set index, inputs and output attributes
C23_Witness ==
    /\ Reindexed
    /\ ops = <<<<"reindex">>>>
    /\ env.fs = FieldFiles
    /\ Len(nodes) = 3
    /\ \E k \in DOMAIN nodes : Len(nodes[k].inputs) = 2
    /\ \E k \in DOMAIN nodes : nodes[k].output = None /\ FileSetsOutput(nodes[k])

\* C22: on the forest of a well-formed file order ends, whatever nodes it
\* takes as seeds; a node that has its order is on no list any more, so it
\* is given its order once; no node stands twice in order_queue; and when
\* the loop breaks every node has its order.
C22_OrderVisitsOnce ==
    /\ [](pc = "order" =>
            /\ \A i \in AllIndices(nodes) :
                  HasOrder(nodes, i) => (i \notin all_nodes /\ i \notin Range(order_queue))
            /\ \A j, k \in DOMAIN order_queue : order_queue[j] = order_queue[k] => j = k
            /\ Range(order_queue) \cap all_nodes = {}
            /\ (all_nodes = {} /\ order_queue = <<>>) =>
                  \A i \in AllIndices(nodes) : HasOrder(nodes, i))
    /\ (pc = "order") ~> (pc # "order")

\* order has ended on a forest of two components and four nodes, one of
\* them with two inputs
C22_Witness ==
    /\ pc = "root"
    /\ Len(nodes) = 4
    /\ Cardinality(Outlets(nodes)) = 2
    /\ \E i \in DOMAIN nodes : Len(nodes[i].inputs) = 2
    /\ \A i \in AllIndices(nodes) : HasOrder(nodes, i)

\* following output from node 0 runs into a cycle
CycleFromZero(nds) == nds # <<>> /\ ~OutputEnds(nds, 0, Len(nds))

\* every node has an order, a number
AllOrdered(nds) ==
    \A i \in DOMAIN nds :
        get_attr(nds[i], "order") # None /\ read_number(get_attr(nds[i], "order")[1]) # None

\* C21: on a network whose nodes all have an order and whose output links
\* contain a cycle, reindex never gets out of its loops: where following
\* output from node 0 runs into the cycle, the search for the most
\* downstream point never finds a node without output; elsewhere the
\* traversal never finds its queue and all_nodes both empty.
C21_ReindexNeverEnds ==
    (pc \in {"root", "reindex"} /\ AllOrdered(nodes) /\ OutputCycle(nodes)) =>
        IF CycleFromZero(nodes)
        THEN pc = "root" /\ At(nodes, output).output # None
        ELSE pc = "reindex" => ~(curr_nodes = <<>> /\ all_nodes = {})

\* the traversal of reindex has visited a node of a cycle a third time,
\* on a network whose node 0 is not on the cycle
C21_Witness ==
    /\ pc = "reindex"
    /\ AllOrdered(nodes)
    /\ OutputCycle(nodes)
    /\ ~CycleFromZero(nodes)
    /\ \E n \in AllIndices(nodes) :
          Cardinality({k \in DOMAIN visited : visited[k][1] = n}) >= 3

\* the search for the most downstream point is back at node 0, having
\* followed output round a cycle of two nodes
C21_WitnessRoot ==
    /\ pc = "root"
    /\ CycleFromZero(nodes)
    /\ At(nodes, 0).output = Some(1)
    /\ At(nodes, 1).output = Some(0)
    /\ output = 1

(***************************************************************************)
(* The claims on graph_print.                                              *)
(***************************************************************************)
\* graph_print has returned
Printed == pc = "ready" /\ ops = <<<<"graph_print">>>>

\* a label line: glyphs, two spaces and, last, the text of a node
IsLabelLine(l) ==
    /\ Len(l) >= 5
    /\ \A i \in 1..(Len(l) - 1) : l[i] \in {" ", "|", "+", "-", "*"}
    /\ Cardinality({i \in 1..(Len(l) - 1) : l[i] = "*"}) = 1

\* a connector line: pipes and spaces only
IsConnectorLine(l) == \A i \in DOMAIN l : l[i] \in {" ", "|"}

\* C14: graph_print of the non-empty network from_file returned prints
\* twice as many lines as the network has nodes: label lines and connector
\* lines in turn, and the text of every node of the sequence on exactly
\* one label line.
C14_TwoLinesPerNode ==
    (Printed /\ nodes # <<>>) =>
        /\ Len(stdout) = 2 * Len(nodes)
        /\ \A k \in DOMAIN nodes :
              /\ IsLabelLine(stdout[2 * k - 1])
              /\ IsConnectorLine(stdout[2 * k])
              /\ Cardinality({j \in DOMAIN nodes :
                                 stdout[2 * j - 1][Len(stdout[2 * j - 1])] = Format(nodes[k])}) = 1

\* graph_print has printed a network of two components, a node of the second
\* one standing twice in the sequence
C14_Witness ==
    /\ Printed
    /\ Len(nodes) = 4
    /\ Cardinality(Outlets(nodes)) >= 2
    /\ \E i, j \in DOMAIN nodes : i # j /\ nodes[i].name = nodes[j].name
    /\ Len(stdout) = 8

\* graph_print has printed a network with a side branch, which merges with a +
C14_WitnessMerge ==
    /\ Printed
    /\ Len(nodes) = 3
    /\ \E k \in DOMAIN stdout : \E i \in DOMAIN stdout[k] : stdout[k][i] = "+"
    /\ Len(stdout) = 6

\* the node whose text the graph node gnd has
NodeOfText(nds, gnd) == CHOOSE k \in DOMAIN nds : Format(nds[k]) = gnd.text

\* C25: of every graph node of graph_print pre is the level of its node and
\* merge holds exactly when the node has an output of another level, so
\* never for an outlet; and on the network from_file returns for a
\* well-formed file merge holds only where pre >= 1, so that the + takes
\* the place of a pipe.
C25_MergeReplacesPipe ==
    pc = "graph" =>
        \A k \in DOMAIN graph_nodes :
            LET gnd == graph_nodes[k]
                node == nodes[NodeOfText(nodes, gnd)]
            IN /\ gnd.pre = LevelOf(node)
               /\ gnd.merge <=> (/\ node.output # None
                                 /\ LevelOf(At(nodes, node.output[1])) # LevelOf(node))
               /\ gnd.merge => gnd.pre >= 1
               /\ gnd.merge => GraphCmps(gnd)[2 * gnd.pre] = "+"

\* C15: for a file of a single bare line graph_print prints two lines, the
\* line of the node and a connector line without a pipe.
C15_LoneNodeEmptyConnector ==
    (Printed /\ Len(nodes) = 1) =>
        /\ Len(stdout) = 2
        /\ IsLabelLine(stdout[1])
        /\ \A i \in DOMAIN stdout[2] : stdout[2][i] # "|"

(***************************************************************************)
(* The claims on graph_print_dot and generate_latex_table.                 *)
(***************************************************************************)
\* one of the two emitters is in its loop
Emitting == pc \in {"dot", "latex"}

\* the nodes visited so far, in the order of their visits
VisitedSeq(gns) == [k \in DOMAIN gns |-> gns[k][1]]

\* the loop has just visited a node
Visits == Emitting /\ Len(graph_nodes') = Len(graph_nodes) + 1

\* C24: the loop of graph_print_dot and of generate_latex_table starts at
\* index 0; every node is at any time either visited, on the stack or in
\* all_nodes, and in one place only; the node visited is the top of the
\* stack, or a node of all_nodes when the stack is empty and only then; its
\* inputs still in all_nodes go onto the stack last input first, so that
\* the first of them is on top; the loop is left exactly when the stack
\* and all_nodes are both empty, every node then visited once.
C24_SharedTraversal ==
    /\ [](Emitting =>
            /\ IF graph_nodes = <<>> THEN curr_nodes = <<0>> ELSE graph_nodes[1][1] = 0
            /\ Range(VisitedSeq(graph_nodes)) \cup Range(curr_nodes) \cup all_nodes
                  = AllIndices(nodes)
            /\ Len(graph_nodes) + Len(curr_nodes) + Cardinality(all_nodes) = Len(nodes))
    /\ [][Visits =>
            LET n == graph_nodes'[Len(graph_nodes')][1]
                rest == IF curr_nodes = <<>> THEN <<>>
                        ELSE SubSeq(curr_nodes, 1, Len(curr_nodes) - 1)
                fresh == SelectSeq(At(nodes, n).inputs, LAMBDA i : i \in all_nodes \ {n})
            IN /\ IF curr_nodes = <<>> THEN n \in all_nodes
                  ELSE n = curr_nodes[Len(curr_nodes)]
               /\ curr_nodes' = rest \o Reversed(fresh)
               /\ fresh # <<>> => curr_nodes'[Len(curr_nodes')] = fresh[1]
               /\ all_nodes' = (all_nodes \ {n}) \ Range(fresh)]_vars
    /\ [][(Emitting /\ pc' # pc) =>
            /\ curr_nodes = <<>> /\ all_nodes = {}
            /\ \A i \in AllIndices(nodes) :
                  Cardinality({k \in DOMAIN graph_nodes : graph_nodes[k][1] = i}) = 1]_vars
    /\ [][(Emitting /\ curr_nodes = <<>> /\ all_nodes = {}) => pc' = "ready"]_vars

\* generate_latex_table has walked a network of three nodes, the outlet
\* with two inputs: the first input was visited right after the outlet
C24_Witness ==
    /\ pc = "ready"
    /\ ops # <<>> /\ ops[1][1] = "generate_latex_table"
    /\ Len(nodes) = 3
    /\ Len(At(nodes, 0).inputs) = 2
    /\ VisitedSeq(graph_nodes) = <<0, At(nodes, 0).inputs[1], At(nodes, 0).inputs[2]>>

\* graph_print_dot has walked a network of two components, the second
\* one taken from all_nodes when the stack was empty
C24_WitnessReseed ==
    /\ pc = "ready"
    /\ ops # <<>> /\ ops[1][1] = "graph_print_dot"
    /\ Len(nodes) >= 3
    /\ Cardinality(Outlets(nodes)) >= 2
    /\ Len(graph_nodes) = Len(nodes)

\* graph_print_dot has returned, called without --sort-by and with the
\* default direction
DotPrintedPlain ==
    /\ pc = "ready"
    /\ ops # <<>> /\ ops[1][1] = "graph_print_dot"
    /\ ops[1][2].sort_by = None
    /\ ops[1][2].direction = "TopToBottom"

\* the lines of the nodes among the lines printed: index, then pos="x,y!"
NodeLines(out) == SelectSeq(out, LAMBDA l : Len(l) >= 5 /\ l[2] = " [pos=\"")

\* the node lines stand in the order of the visits, and the k-th of them,
\* counted from 0, places its node at (level x node_offset, k x node_offset)
PlacedByVisit ==
    LET lines == NodeLines(stdout)
        node_offset == ops[1][2].node_offset
    IN /\ Len(lines) = Len(nodes)
       /\ \A j \in DOMAIN lines :
             LET node == At(nodes, graph_nodes[j][1])
             IN /\ lines[j][1] = ToString(node.index)
                /\ lines[j][3] = ToString(LevelOf(node) * node_offset)
                /\ lines[j][5] = ToString((j - 1) * node_offset)
       /\ graph_nodes[1][1] = 0
       /\ \A i \in AllIndices(nodes) : \E j \in DOMAIN lines : graph_nodes[j][1] = i

\* no two node lines have the same second coordinate
DistinctSecond ==
    LET lines == NodeLines(stdout)
    IN \A j, k \in DOMAIN lines : j # k => lines[j][5] # lines[k][5]

\* C26, as stated: without --sort-by and with the default direction every
\* node is placed at (level x node_offset, k x node_offset), k its place in
\* the visits of graph_print_dot, 0 for index 0, the k of the n nodes being
\* 0..n-1; and no two nodes have the same second coordinate.
C26_PlacedByVisitOrder ==
    (DotPrintedPlain /\ nodes # <<>>) => (PlacedByVisit /\ DistinctSecond)

\* C26, amended: the same placing; no two nodes have the same second
\* coordinate where node_offset is not 0.
C26_PlacedByVisitOrderNonZero ==
    (DotPrintedPlain /\ nodes # <<>>) =>
        /\ PlacedByVisit
        /\ ops[1][2].node_offset # 0 => DistinctSecond

\* graph_print_dot has printed, with the node offset 2, a network of three
\* nodes that it visited in another order than that of their indices
C26_Witness ==
    /\ DotPrintedPlain
    /\ ops[1][2].node_offset = 2
    /\ Len(nodes) = 3
    /\ \E j \in DOMAIN graph_nodes : graph_nodes[j][1] # j - 1
    /\ NodeLines(stdout)[3][5] = "4"

(***************************************************************************)
(* The claims on the reading of the connection file.                       *)
(***************************************************************************)
\* the shapes of a line: blank, a comment, the bare name a, the edge a -> b
IsBlankLine(l) == \A i \in DOMAIN l : l[i] = " "

IsCommentLine(l) == l # <<>> /\ l[1] = "#"

IsBareLine(l, a) == l \in {<<a>>, <<" ", a, " ">>}

IsEdgeLine(l, a, b) == l \in {<<a, "->", b>>, <<a, " ", "->", " ", b>>}

\* from_file reads a line
ReadsLine == pc = "parse" /\ pc' = "parse"

\* from_file builds the nodes
BuildsNodes == pc = "parse" /\ pc' = "order"

\* the names named, in this order, are numbered: a name that has a number
\* keeps it, the others get the next numbers in the order of the sequence
NumberedInOrder(seq) ==
    /\ DOMAIN indices' = DOMAIN indices \cup Range(seq)
    /\ \A n \in DOMAIN indices : indices'[n] = indices[n]
    /\ \A i \in DOMAIN seq :
          (seq[i] \notin DOMAIN indices /\ \A j \in 1..(i - 1) : seq[j] # seq[i]) =>
              indices'[seq[i]] =
                  Cardinality(DOMAIN indices \cup {seq[j] : j \in 1..(i - 1)})
    /\ Len(inputs') = Cardinality(DOMAIN indices')

\* C18: a blank line and a line starting with # change nothing; a bare line
\* numbers its name and an edge line its left name and then its right name:
\* a name seen before keeps its number and a new name gets the next number;
\* and the nodes built at the end of the file are one node per name, the
\* node of number i at position i.
C18_FirstOccurrenceNumbering ==
    [][/\ (ReadsLine /\ (IsBlankLine(line') \/ IsCommentLine(line'))) =>
              UNCHANGED <<indices, inputs, output_map>>
       /\ \A a \in NamesUpTo(env.cap) :
              (ReadsLine /\ IsBareLine(line', a)) =>
                  /\ NumberedInOrder(<<a>>)
                  /\ output_map' = output_map
                  /\ \A k \in DOMAIN inputs : inputs'[k] = inputs[k]
       /\ \A a, b \in NamesUpTo(env.cap) :
              (ReadsLine /\ IsEdgeLine(line', a, b)) => NumberedInOrder(<<a, b>>)
       /\ BuildsNodes =>
              /\ Len(nodes') = Cardinality(DOMAIN indices)
              /\ \A n \in DOMAIN indices :
                    {k \in DOMAIN nodes' : nodes'[k].name = n} = {indices[n] + 1}
              /\ \A k \in DOMAIN nodes' : nodes'[k].index = k - 1]_vars

\* the line A -> B has just been read after both names were numbered, B
\* before A: no name is new, and the numbers stay
C18_Witness ==
    /\ pc = "parse"
    /\ IsEdgeLine(line, "A", "B")
    /\ DOMAIN indices = {"A", "B"}
    /\ indices["B"] = 0
    /\ indices["A"] = 1
    /\ inputs = <<<<1>>, <<>>>>

\* C19: an edge line A -> B' read when A is the source of an earlier edge
\* line makes B' the output of A and appends A to the inputs of B', and
\* leaves every other inputs list as it is, A in the inputs of the earlier
\* target; the nodes are built with these inputs and outputs.
C19_LaterEdgeWins ==
    [][/\ \A a, b \in NamesUpTo(env.cap) :
              (/\ ReadsLine
               /\ IsEdgeLine(line', a, b)
               /\ a \in DOMAIN indices
               /\ indices[a] \in DOMAIN output_map) =>
                  LET ia == indices'[a]
                      ib == indices'[b]
                  IN /\ ia = indices[a]
                     /\ DOMAIN output_map' = DOMAIN output_map
                     /\ output_map'[ia] = ib
                     /\ \A k \in DOMAIN output_map : k # ia => output_map'[k] = output_map[k]
                     /\ inputs'[ib + 1] =
                            Append(IF ib + 1 \in DOMAIN inputs THEN inputs[ib + 1] ELSE <<>>, ia)
                     /\ \A k \in DOMAIN inputs : k # ib + 1 => inputs'[k] = inputs[k]
                     /\ \E j \in DOMAIN inputs[output_map[ia] + 1] :
                            inputs[output_map[ia] + 1][j] = ia
       /\ BuildsNodes =>
              \A k \in DOMAIN nodes' :
                  /\ nodes'[k].inputs = inputs[k]
                  /\ nodes'[k].output =
                         IF k - 1 \in DOMAIN output_map THEN Some(output_map[k - 1]) ELSE None]_vars

\* the nodes are built of a file with two edge lines of the same source and
\* different targets: the source is an input of a node that is not its output
C19_Witness ==
    /\ pc = "order"
    /\ \E k \in DOMAIN nodes :
          \E j \in DOMAIN nodes[k].inputs :
              LET src == At(nodes, nodes[k].inputs[j])
              IN /\ src.output # None
                 /\ src.output[1] # k - 1
                 /\ \E i \in DOMAIN At(nodes, src.output[1]).inputs :
                        At(nodes, src.output[1]).inputs[i] = src.index

\* C10: when from_file or reindex has returned, every output is another
\* node that lists the node among its inputs, and every input of a node has
\* that node as its output.
C10_LinksConsistent ==
    pc = "ready" =>
        \A k \in DOMAIN nodes :
            /\ nodes[k].output # None =>
                  /\ nodes[k].output[1] # k - 1
                  /\ \E j \in DOMAIN At(nodes, nodes[k].output[1]).inputs :
                        At(nodes, nodes[k].output[1]).inputs[j] = k - 1
            /\ \A j \in DOMAIN nodes[k].inputs :
                  At(nodes, nodes[k].inputs[j]).output = Some(k - 1)

(***************************************************************************)
(* The claims on cumulate.                                                 *)
(***************************************************************************)
\* a cumulate call has returned; its variables and the nodes it was made on
Cumulated == pc = "ready" /\ ops # <<>> /\ ops[Len(ops)][1] = "cumulate"

LastVars == ops[Len(ops)][2]

NodesBefore == before[1].nodes

\* the attribute var of node is a Number or a Value
Numeric(node, var) ==
    var \in DOMAIN node.attrs /\ node.attrs[var].tag \in {"Number", "Value"}

\* the attribute var of node as a number, 0 when it is missing or no number
BaseValue(node, var) == IF Numeric(node, var) THEN node.attrs[var].val ELSE 0

RECURSIVE ChainNames(_, _)
\* the names of the nodes on the output chain that starts with the Option out
ChainNames(nds, out) ==
    IF out = None THEN {}
    ELSE {At(nds, out[1]).name} \cup ChainNames(nds, At(nds, out[1]).output)

\* the names of the nodes upstream of the node called name
UpstreamNames(nds, name) ==
    {nds[k].name : k \in {j \in DOMAIN nds : name \in ChainNames(nds, nds[j].output)}} \ {name}

\* the attribute var of the node called name, as a number
BaseOfName(nds, name, var) ==
    BaseValue(nds[CHOOSE k \in DOMAIN nds : nds[k].name = name], var)

RECURSIVE SumOver(_, _, _)
\* the sum of the attribute var over the nodes called by the names of S
SumOver(nds, S, var) ==
    IF S = {} THEN 0
    ELSE LET name == CHOOSE x \in S : TRUE
         IN BaseOfName(nds, name, var) + SumOver(nds, S \ {name}, var)

\* the variables read from the attribute files: every clone of a node has
\* the value of its name
FileVars == {"x", "v"}

\* C5: after from_file on a forest, a cumulate call with one variable x that
\* returns Ok leaves on every node n cum_x(n) = x(n) + the sum of x(u) over
\* the nodes u whose output chain passes through n, each of them once.
C5_CumulateSumsUpstream ==
    (Cumulated /\ Len(ops) = 1 /\ Len(LastVars) = 1 /\ result[1].ok
        /\ VarOf(LastVars[1]) \in FileVars) =>
        \A k \in DOMAIN nodes :
            ValueAttr(nodes[k], CumKey(VarOf(LastVars[1]))) =
                BaseValue(nodes[k], VarOf(LastVars[1]))
                + SumOver(nodes, UpstreamNames(nodes, nodes[k].name), VarOf(LastVars[1]))

\* the positions of the nodes whose outlet is the node at index 0
RootComponent(nds) ==
    {k \in DOMAIN nds : k = 1 \/ At(nds, 0).name \in ChainNames(nds, nds[k].output)}

\* every node has x = 1
UnitWeights(nds) == nds # <<>> /\ \A k \in DOMAIN nds : Numeric(nds[k], "x") /\ nds[k].attrs["x"].val = 1

RECURSIVE RunningValues(_, _, _, _)
\* the values map of cumulate when its loop over the nodes has gone through
\* the nodes k..last
RunningValues(nds, k, last, values) ==
    IF k > last THEN values
    ELSE RunningValues(nds, k + 1, last,
                       AddDownstream(nds, values, nds[k].output, values[nds[k].name]))

\* C27: in the network from_file returns every node of the component of the
\* node at index 0 that has an output has a greater index than its output;
\* so no node that stands before it in the sequence is upstream of it, and
\* when the loop of cumulate comes to it, its value in the values map is
\* still the one get_values read.
C27_DownstreamFirst ==
    /\ pc = "ready" =>
          \A k \in RootComponent(nodes) :
              /\ nodes[k].index = k - 1
              /\ nodes[k].output # None => nodes[k].index > nodes[k].output[1]
              /\ \A j \in 1..(k - 1) : nodes[k].name \notin ChainNames(nodes, nodes[j].output)
    /\ (Cumulated /\ Len(ops) = 1 /\ LastVars # <<>>) =>
          LET got == get_values(NodesBefore, 1, VarOf(LastVars[1]), IsSafe(LastVars[1]), EmptyMap)
          IN got.res.ok =>
                \A k \in RootComponent(NodesBefore) :
                    RunningValues(NodesBefore, 1, k - 1, got.values)[NodesBefore[k].name]
                        = got.values[NodesBefore[k].name]

\* cumulate has stored cum_x on a network of unit weights whose component
\* at index 0 has three nodes, the outlet with the sum 3
C27_Witness ==
    /\ Cumulated /\ Len(ops) = 1 /\ LastVars = <<<<"x">>>>
    /\ UnitWeights(nodes)
    /\ Cardinality(RootComponent(nodes)) = 3
    /\ ValueAttr(nodes[1], CumKey("x")) = 3

\* C6: on a network whose nodes all have x = 1, once cumulate has stored
\* cum_x, every node of the component of the node at index 0 has
\* cum_x = order.
C6_UnitWeightsGiveOrder ==
    (Cumulated /\ UnitWeights(nodes) /\ CumKey("x") \in DOMAIN nodes[1].attrs) =>
        \A k \in RootComponent(nodes) :
            ValueAttr(nodes[k], CumKey("x")) = NumberAttr(nodes[k], "order")

\* cum_x is stored on a network of unit weights that has a component of
\* two nodes at index 0 and another component
C6_Witness ==
    /\ Cumulated /\ UnitWeights(nodes) /\ CumKey("x") \in DOMAIN nodes[1].attrs
    /\ Cardinality(RootComponent(nodes)) = 2
    /\ Len(nodes) > 2
    /\ ValueAttr(nodes[1], CumKey("x")) = 2

\* the cum_ attributes of the nodes
CumAttrs(nds) ==
    [k \in DOMAIN nds |->
        [key \in {c \in DOMAIN nds[k].attrs : \E a \in VarArgs : c = CumKey(VarOf(a))} |->
            nds[k].attrs[key]]]

\* C7: a cumulate call made a second time with the same variables leaves
\* every node as the first call left it, and a variable listed twice in one
\* call leaves the cum_ attributes that listing it once leaves.
C7_CumulateIdempotent ==
    Cumulated =>
        /\ (Len(ops) >= 2 /\ ops[Len(ops) - 1] = ops[Len(ops)]) => nodes = NodesBefore
        /\ (Len(LastVars) = 2 /\ LastVars[1] = LastVars[2]) =>
              CumAttrs(nodes) = CumAttrs(cumulate(NodesBefore, <<LastVars[1]>>).nodes)

\* the same call was made twice, on nodes with a value that is not 0
\* upstream of another node, and it returned Ok
C7_Witness ==
    /\ Cumulated /\ Len(ops) = 2 /\ ops[1] = ops[2]
    /\ Len(LastVars) = 2 /\ LastVars[1] = LastVars[2]
    /\ result[1].ok
    /\ \E k \in DOMAIN nodes :
        /\ nodes[k].output # None
        /\ ValueAttr(nodes[k], CumKey(VarOf(LastVars[1]))) > 0

\* the keys cumulate computes for the variables of its last call
CumKeysOfCall == {CumKey(VarOf(LastVars[k])) : k \in DOMAIN LastVars}

\* C29: a cumulate call, whether it returns Ok or an error, leaves the
\* indices and the sequence of the nodes, of every node the name, the index,
\* the inputs and the output, and every attribute and template variable
\* whose key is not a cum_ key of a variable of the call; it adds no other key.
C29_CumulateFrame ==
    Cumulated =>
        /\ indices = before[1].indices
        /\ Len(nodes) = Len(NodesBefore)
        /\ \A k \in DOMAIN nodes :
              LET new == nodes[k]
                  old == NodesBefore[k]
              IN /\ new.name = old.name
                 /\ new.index = old.index
                 /\ new.inputs = old.inputs
                 /\ new.output = old.output
                 /\ DOMAIN old.attrs \subseteq DOMAIN new.attrs
                 /\ DOMAIN new.attrs \subseteq DOMAIN old.attrs \cup CumKeysOfCall
                 /\ DOMAIN new.variables = DOMAIN new.attrs
                 /\ \A key \in DOMAIN old.attrs \ CumKeysOfCall :
                       /\ new.attrs[key] = old.attrs[key]
                       /\ new.variables[key] = old.variables[key]

\* a call with the variables v? and x on nodes of which one only has x
\* returned an error: cum_v is new on every node, and the attributes name,
\* index, inputs, order, level and v are what they were
C29_Witness ==
    /\ Cumulated /\ Len(ops) = 1
    /\ LastVars = <<<<"v", "?">>, <<"x">>>>
    /\ ~result[1].ok
    /\ Len(nodes) = 3
    /\ \A k \in DOMAIN nodes :
          /\ CumKey("v") \in DOMAIN nodes[k].attrs \ DOMAIN NodesBefore[k].attrs
          /\ {"name", "index", "inputs", "order", "level"} \subseteq DOMAIN nodes[k].attrs
    /\ \E k \in DOMAIN nodes : "v" \in DOMAIN nodes[k].attrs

\* C30: a cumulate call that returns an error for a later variable of its
\* list leaves every node as it was before the call.
C30_AllOrNothing ==
    (Cumulated /\ Len(ops) = 1 /\ ~result[1].ok) => nodes = NodesBefore

\* the variable of the argument arg cannot be read of every node of nds in
\* the strict mode
FailsOn(nds, arg) ==
    ~IsSafe(arg) /\ \E k \in DOMAIN nds : ~Numeric(nds[k], VarOf(arg))

\* msg is the message for a node of nds that lacks var or holds no number in it
NamesFailingNode(nds, var, msg) ==
    \E k \in DOMAIN nds :
        \/ /\ var \notin DOMAIN nds[k].attrs
           /\ msg = "Node " \o nds[k].name \o " doesn't have attribute " \o var
        \/ /\ var \in DOMAIN nds[k].attrs
           /\ nds[k].attrs[var].tag \in {"String", "Vec"}
           /\ msg = "Node " \o nds[k].name \o ", attribute " \o var \o " is not parsable as float"

\* the attribute key is on node a what it is on node b
SameAttr(a, b, key) ==
    /\ key \in DOMAIN a.attrs <=> key \in DOMAIN b.attrs
    /\ key \in DOMAIN a.attrs => a.attrs[key] = b.attrs[key]

\* C8: a cumulate call on a network with nodes returns an error when a
\* strict variable is missing on a node or is a text or an index list there;
\* the error names such a node and the variable, and the call has written
\* the cum_ attribute of that variable on no node.  A call whose strict
\* variables are Numbers or Values on every node returns Ok and stores
\* Values.
C8_StrictModeErrors ==
    (Cumulated /\ NodesBefore # <<>>) =>
        /\ \A j \in DOMAIN LastVars :
              (FailsOn(NodesBefore, LastVars[j])
                  /\ \A i \in 1..(j - 1) : ~FailsOn(NodesBefore, LastVars[i])) =>
                  /\ ~result[1].ok
                  /\ NamesFailingNode(NodesBefore, VarOf(LastVars[j]), result[1].msg)
                  /\ (\A i \in 1..(j - 1) : VarOf(LastVars[i]) # VarOf(LastVars[j])) =>
                        \A k \in DOMAIN nodes :
                            SameAttr(nodes[k], NodesBefore[k], CumKey(VarOf(LastVars[j])))
        /\ (\A j \in DOMAIN LastVars : ~FailsOn(NodesBefore, LastVars[j])) =>
              /\ result[1].ok
              /\ \A j \in DOMAIN LastVars : \A k \in DOMAIN nodes :
                    ValueAttr(nodes[k], CumKey(VarOf(LastVars[j]))) >= 0

\* a first call failed on its second variable, which the nodes lack, the
\* first one being a Number on every node
C8_Witness ==
    /\ Cumulated /\ Len(ops) = 1
    /\ LastVars = <<<<"x">>, <<"v">>>>
    /\ ~result[1].ok
    /\ Len(nodes) > 1
    /\ \A k \in DOMAIN nodes : Numeric(nodes[k], "x") /\ "v" \notin DOMAIN nodes[k].attrs

\* nds, the attribute var set to the Value 0 on the nodes where it is
\* missing or no number
ZeroFilled(nds, var) ==
    [k \in DOMAIN nds |->
        IF Numeric(nds[k], var) THEN nds[k]
        ELSE [nds[k] EXCEPT !.attrs = MapInsert(@, var, AttrValue(0))]]

\* the network is the chain A -> B, v = 2 on A and no v on B
ChainAB(nds) ==
    /\ Len(nds) = 2
    /\ \E a \in DOMAIN nds : \E b \in DOMAIN nds :
        /\ nds[a].name = "A" /\ nds[b].name = "B"
        /\ nds[a].output = Some(b - 1) /\ nds[b].output = None
        /\ Numeric(nds[a], "v") /\ nds[a].attrs["v"].val = 2
        /\ "v" \notin DOMAIN nds[b].attrs

\* C9: a cumulate call whose variables all end with '?' returns Ok and
\* stores cum_<name>, the '?' cut, on every node; the values are those of
\* the strict call on the network with 0 where the attribute is missing or
\* no number; on the chain A -> B with v = 2 on A only, cum_v is 2 on both.
C9_SafeModeDefaultsToZero ==
    (Cumulated /\ NodesBefore # <<>> /\ LastVars # <<>>
        /\ \A j \in DOMAIN LastVars : LastVars[j][Len(LastVars[j])] = "?") =>
        /\ result[1].ok
        /\ \A j \in DOMAIN LastVars : \A k \in DOMAIN nodes :
              LET name == Text(SubSeq(LastVars[j], 1, Len(LastVars[j]) - 1))
              IN /\ ValueAttr(nodes[k], "cum_" \o name) >= 0
                 /\ ("cum_" \o name \o "?") \notin DOMAIN nodes[k].attrs
                 /\ Len(LastVars) = 1 =>
                       ValueAttr(nodes[k], "cum_" \o name) =
                           ValueAttr(cumulate(ZeroFilled(NodesBefore, name), <<<<name>>>>).nodes[k],
                                     "cum_" \o name)
        /\ (ChainAB(NodesBefore) /\ LastVars = <<<<"v", "?">>>>) =>
              \A k \in DOMAIN nodes : ValueAttr(nodes[k], "cum_v") = 2

\* cumulate was called with "v?" on the chain A -> B with v = 2 on A only
C9_Witness ==
    /\ Cumulated /\ Len(ops) = 1
    /\ ChainAB(NodesBefore)
    /\ LastVars = <<<<"v", "?">>>>

====
